---- MODULE Spec2Model ----
(***************************************************************************)
(* Model of the flood-prediction backend:                                  *)
(*   - predict_flood (src/app.py): the threshold rule cascade that         *)
(*     classifies the flood risk from one meteo and one hydro reading;     *)
(*   - OntologyExplorer (src/ontology_explorer.py): load_ontology, the     *)
(*     read operations and get_ontology_visualization_data;                *)
(*   - InferenceExplainer (src/inference_explainer.py): explain_inference, *)
(*     as get_inference_explanation calls it.                              *)
(*                                                                         *)
(* Numbers: the code compares Python floats with the literals 30.0, 15.0,  *)
(* 10.0, 50.0 and 2.5.  Readings are modelled in fixed point, as integer   *)
(* multiples of 1/Scale (mm, m3/s); the water level, discharge / 20, is    *)
(* kept in units of 1/(WLUnit*Scale) m so that the division is exact.      *)
(***************************************************************************)
EXTENDS Integers, Sequences, FiniteSets, TLC

VARIABLES
    \* ---- predict_flood (src/app.py) ----
    pc,             \* position inside predict_flood
    meteo_data,     \* what get_current_meteo() returned
    hydro_data,     \* what get_current_hydro() returned
    precipitation,  \* None or Some(value)
    discharge,      \* None or Some(value)
    water_level,    \* None or Some(value)
    risk_level,     \* "Faible" | "Modéré" | "Élevé" ("unset" before line 735)
    alert_status,   \* "Normal" | "Alerte" ("unset" before line 751)
    risk_reasons,   \* list of reasons, in the order they were appended
    result,         \* the value predict_flood returned
    \* ---- OntologyExplorer (src/ontology_explorer.py) ----
    graph,          \* self.graph: None or Some(set of triples)
    last_loaded,    \* self.last_loaded: None or Some(number of the load)
    load_status,    \* outcome of the most recent load attempt (history)
    ret,            \* the value the last explorer operation returned
    nodes,          \* the node list built by the last visualization call
    links,          \* the links built by the last visualization call
    rules,          \* self.rules: None or Some(list of rule dicts)
    loading,        \* position of the load_ontology call in flight
    store_order,    \* the order in which this process iterates a store
    \* ---- the cache and its threads (src/app.py) ----
    cache,          \* the global dict cache: key -> None or Some(value)
    clock,          \* time.time(), in seconds
    threads,        \* each thread's position and locals
    writer          \* history: the evaluation that wrote each flood entry

predictVars == <<pc, meteo_data, hydro_data, precipitation, discharge,
                 water_level, risk_level, alert_status, risk_reasons, result>>
explorerVars == <<graph, last_loaded, load_status, ret, nodes, links>>
catalogVars == <<rules, loading, store_order>>
cacheVars == <<cache, clock, threads, writer>>
vars == <<predictVars, explorerVars, catalogVars, cacheVars>>

(***************************************************************************)
(* Python's None and a present value.                                      *)
(***************************************************************************)
None == <<>>
Some(v) == <<v>>
IsNone(x) == x = <<>>
Val(x) == x[1]

(***************************************************************************)
(* Bounds of the model.                                                    *)
(***************************************************************************)
\* resolution of the fixed-point readings: one unit is 1/Scale
Scale == 100
\* readings are drawn within Eps units around each threshold
Eps == 1

\* units of the water level per unit of discharge before the division by 20
WLUnit == 100

(***************************************************************************)
(* Thresholds of the rule cascade (src/app.py:740-764).                    *)
(***************************************************************************)
PRECIP_HIGH == 30 * Scale                \* precipitation > 30.0
PRECIP_MODERATE == 15 * Scale            \* precipitation > 15.0
DISCHARGE_HIGH == 10 * Scale             \* discharge > 10.0
DISCHARGE_VERY_HIGH == 50 * Scale        \* discharge > 50.0
WATER_LEVEL_HIGH == (25 * Scale * WLUnit) \div 10     \* water_level > 2.5

\* water_level = discharge / 20 (src/app.py:715), exact in the finer unit
WaterLevelOfTenth(d) == (d * WLUnit) \div 10
WaterLevelOf(d) == (d * WLUnit) \div 20

Around(t) == (t - Eps)..(t + Eps)

PrecipValues ==
    {0, 35 * Scale, 40 * Scale} \cup Around(PRECIP_MODERATE) \cup Around(PRECIP_HIGH)
DischargeValues ==
    {0, 55 * Scale, 60 * Scale} \cup Around(DISCHARGE_HIGH) \cup Around(DISCHARGE_VERY_HIGH)

(***************************************************************************)
(* The return values of get_current_meteo and get_current_hydro, reduced   *)
(* to what predict_flood reads (src/app.py:625-629, 676-683, 707-710).     *)
(*   meteo: an error dict, or a list: empty, or whose first report has no  *)
(*          "measurements", or no precipitation key, or a value that may   *)
(*          be None;                                                       *)
(*   hydro: an error dict, or a dict: without "current", or whose          *)
(*          discharge may be None.                                         *)
(***************************************************************************)
MeteoResults ==
    {[kind |-> "error", shape |-> "error", value |-> None]}
    \cup {[kind |-> "list", shape |-> s, value |-> None] :
            s \in {"empty", "no_measurements", "no_precipitation", "value"}}
    \cup {[kind |-> "list", shape |-> "value", value |-> Some(v)] : v \in PrecipValues}

HydroResults ==
    {[kind |-> "error", shape |-> "error", value |-> None]}
    \cup {[kind |-> "dict", shape |-> s, value |-> None] : s \in {"no_current", "value"}}
    \cup {[kind |-> "dict", shape |-> "value", value |-> Some(v)] : v \in DischargeValues}

NoData == [kind |-> "none", shape |-> "none", value |-> None]

\* src/app.py:675-683
ExtractPrecipitation(m) ==
    IF m.shape = "value" /\ ~IsNone(m.value) THEN Some(Val(m.value)) ELSE None

\* src/app.py:704-710
ExtractDischarge(h) ==
    IF h.shape = "value" /\ ~IsNone(h.value) THEN Some(Val(h.value)) ELSE None

\* src/app.py:705, 715
ExtractWaterLevel(h) ==
    IF IsNone(ExtractDischarge(h)) THEN None
    ELSE Some(WaterLevelOf(Val(ExtractDischarge(h))))

(***************************************************************************)
(* Reasons: the f-strings of lines 742, 748, 756, 763, 766 and 770, as the *)
(* rule that produced them and the values they print.                      *)
(***************************************************************************)
Reason1(p, w) == <<"Précipitations élevées et niveau d'eau élevé", p, w>>
Reason2(d) == <<"Débit élevé à la station de Wayen", d>>
Reason3(d) == <<"Débit très élevé du Nakanbé à Wayen", d>>
Reason4(p) == <<"Précipitations modérées", p>>
Reason5(p) == <<"Précipitations très élevées", p>>
DefaultReason == <<"Conditions météorologiques et hydrologiques stables">>

\* src/app.py:798-815
Recommendations(level) ==
    IF level = "Faible" THEN
        <<"Aucune action spécifique requise",
          "Rester informé des bulletins météorologiques">>
    ELSE IF level = "Modéré" THEN
        <<"Surveiller les niveaux d'eau dans les zones à risque",
          "Préparer les équipements d'urgence",
          "Limiter les déplacements dans les zones sensibles en cas de pluie">>
    ELSE
        <<"Évacuer les zones à haut risque",
          "Activer les centres d'urgence locaux",
          "Suivre strictement les consignes des autorités",
          "Éviter tout déplacement non essentiel">>

NoResult == [kind |-> "none"]
ErrorResult(cause) == [kind |-> "error", error |-> cause]

\* src/app.py:773-795
PredictionResult ==
    [kind |-> "prediction",
     risk_level |-> risk_level,
     alert_status |-> alert_status,
     reasons |-> risk_reasons,
     precipitation |-> precipitation,
     discharge |-> discharge,
     water_level |-> water_level,
     recommendations |-> Recommendations(risk_level)]

(***************************************************************************)
(* The conditions of the five rules, in the order the code evaluates them. *)
(***************************************************************************)
\* src/app.py:739-740
Rule1FiresOnWaterLevel(p, w) ==
    ~IsNone(p) /\ ~IsNone(w) /\ Val(w) > WATER_LEVEL_HIGH
Rule1Fires(p, w) ==
    /\ ~IsNone(p) /\ ~IsNone(w)
    /\ Val(p) > PRECIP_HIGH /\ Val(w) > WATER_LEVEL_HIGH

\* src/app.py:745
Rule2Fires(d) == ~IsNone(d) /\ Val(d) > DISCHARGE_HIGH

\* src/app.py:752
Rule3FiresAtRule2Threshold(d) == ~IsNone(d) /\ Val(d) > DISCHARGE_HIGH
Rule3Fires(d) == ~IsNone(d) /\ Val(d) > DISCHARGE_VERY_HIGH

\* src/app.py:759-760
Rule4FiresInclusive(p) ==
    ~IsNone(p) /\ Val(p) >= PRECIP_MODERATE /\ Val(p) <= PRECIP_HIGH
Rule4Fires(p) ==
    ~IsNone(p) /\ Val(p) > PRECIP_MODERATE /\ Val(p) <= PRECIP_HIGH

\* src/app.py:759, 764 (the elif of rule 4's if)
Rule5FiresInclusive(p) == ~IsNone(p) /\ Val(p) >= PRECIP_HIGH
Rule5Fires(p) ==
    ~IsNone(p) /\ ~(Val(p) > PRECIP_MODERATE /\ Val(p) <= PRECIP_HIGH)
               /\ Val(p) > PRECIP_HIGH

\* src/app.py:746-747 and 754-755: "Ne pas déclasser un risque déjà élevé"
RaiseToModerateNoGuard(level) == "Modéré"
RaiseToModerate(level) == IF level # "Élevé" THEN "Modéré" ELSE level

\* src/app.py:761-762: "Ne pas déclasser un risque déjà plus élevé"
RaiseLowToModerate(level) == IF level = "Faible" THEN "Modéré" ELSE level

\* src/app.py:768-770
WithDefaultReasonAlways(reasons) == Append(reasons, DefaultReason)
WithDefaultReason(reasons) ==
    IF reasons = <<>> THEN <<DefaultReason>> ELSE reasons

\* src/app.py:624-629: which source, if any, makes predict_flood give up
FetchErrorOnEmpty(m, h) ==
    IF m.kind = "error" \/ m.shape = "empty" THEN "meteo"
    ELSE IF h.kind = "error" THEN "hydro"
    ELSE "none"
FetchError(m, h) ==
    IF m.kind = "error" THEN "meteo"
    ELSE IF h.kind = "error" THEN "hydro"
    ELSE "none"

(***************************************************************************)
(* predict_flood, one action per block of the function.                    *)
(***************************************************************************)
PredictFrame == UNCHANGED <<explorerVars, catalogVars, cacheVars>>

\* src/app.py:619-629: fetch both readings; an error dict from either source
\* is returned as an error result.
PredictFetch ==
    /\ pc = "idle"
    /\ \E m \in MeteoResults, h \in HydroResults :
        /\ meteo_data' = m
        /\ hydro_data' = h
        /\ IF FetchError(m, h) # "none"
           THEN /\ result' = ErrorResult(FetchError(m, h))
                /\ pc' = "done"
           ELSE /\ result' = NoResult
                /\ pc' = "build"
    /\ UNCHANGED <<precipitation, discharge, water_level, risk_level,
                   alert_status, risk_reasons>>
    /\ PredictFrame

\* src/app.py:631-736: parse the ontology, add the facts of this snapshot,
\* run the closure (the local graph g is read by nothing afterwards), and
\* initialise the cascade.  g.parse or expand raising is caught at line 824.
PredictBuildGraph ==
    /\ pc = "build"
    /\ \E ontologyOk \in BOOLEAN :
        IF ontologyOk
        THEN /\ precipitation' = ExtractPrecipitation(meteo_data)
             /\ discharge' = ExtractDischarge(hydro_data)
             /\ water_level' = ExtractWaterLevel(hydro_data)
             /\ risk_level' = "Faible"
             /\ risk_reasons' = <<>>
             /\ pc' = "rule1"
             /\ UNCHANGED result
        ELSE /\ result' = ErrorResult("exception")
             /\ pc' = "done"
             /\ UNCHANGED <<precipitation, discharge, water_level, risk_level,
                            risk_reasons>>
    /\ UNCHANGED <<meteo_data, hydro_data, alert_status>>
    /\ PredictFrame

\* src/app.py:738-742
PredictRule1 ==
    /\ pc = "rule1"
    /\ IF Rule1Fires(precipitation, water_level)
       THEN /\ risk_level' = "Élevé"
            /\ risk_reasons' =
                 Append(risk_reasons, Reason1(Val(precipitation), Val(water_level)))
       ELSE UNCHANGED <<risk_level, risk_reasons>>
    /\ pc' = "rule2"
    /\ UNCHANGED <<meteo_data, hydro_data, precipitation, discharge, water_level,
                   alert_status, result>>
    /\ PredictFrame

\* src/app.py:744-748
PredictRule2 ==
    /\ pc = "rule2"
    /\ IF Rule2Fires(discharge)
       THEN /\ risk_level' = RaiseToModerate(risk_level)
            /\ risk_reasons' = Append(risk_reasons, Reason2(Val(discharge)))
       ELSE UNCHANGED <<risk_level, risk_reasons>>
    /\ pc' = "rule3"
    /\ UNCHANGED <<meteo_data, hydro_data, precipitation, discharge, water_level,
                   alert_status, result>>
    /\ PredictFrame

\* src/app.py:750-756
PredictRule3 ==
    /\ pc = "rule3"
    /\ IF Rule3Fires(discharge)
       THEN /\ alert_status' = "Alerte"
            /\ risk_level' = RaiseToModerate(risk_level)
            /\ risk_reasons' = Append(risk_reasons, Reason3(Val(discharge)))
       ELSE /\ alert_status' = "Normal"
            /\ UNCHANGED <<risk_level, risk_reasons>>
    /\ pc' = "rule4"
    /\ UNCHANGED <<meteo_data, hydro_data, precipitation, discharge, water_level,
                   result>>
    /\ PredictFrame

\* src/app.py:758-763
PredictRule4 ==
    /\ pc = "rule4"
    /\ IF Rule4Fires(precipitation)
       THEN /\ risk_level' = RaiseLowToModerate(risk_level)
            /\ risk_reasons' = Append(risk_reasons, Reason4(Val(precipitation)))
       ELSE UNCHANGED <<risk_level, risk_reasons>>
    /\ pc' = "rule5"
    /\ UNCHANGED <<meteo_data, hydro_data, precipitation, discharge, water_level,
                   alert_status, result>>
    /\ PredictFrame

\* src/app.py:764-766
PredictRule5 ==
    /\ pc = "rule5"
    /\ IF Rule5Fires(precipitation)
       THEN /\ risk_level' = "Élevé"
            /\ risk_reasons' = Append(risk_reasons, Reason5(Val(precipitation)))
       ELSE UNCHANGED <<risk_level, risk_reasons>>
    /\ pc' = "default"
    /\ UNCHANGED <<meteo_data, hydro_data, precipitation, discharge, water_level,
                   alert_status, result>>
    /\ PredictFrame

\* src/app.py:768-770
PredictDefaultReason ==
    /\ pc = "default"
    /\ risk_reasons' = WithDefaultReason(risk_reasons)
    /\ pc' = "return"
    /\ UNCHANGED <<meteo_data, hydro_data, precipitation, discharge, water_level,
                   risk_level, alert_status, result>>
    /\ PredictFrame

\* src/app.py:772-822
PredictReturn ==
    /\ pc = "return"
    /\ result' = PredictionResult
    /\ pc' = "done"
    /\ UNCHANGED <<meteo_data, hydro_data, precipitation, discharge, water_level,
                   risk_level, alert_status, risk_reasons>>
    /\ PredictFrame

\* The call has returned; its locals are gone and the next call can start.
PredictNextCall ==
    /\ pc = "done"
    /\ pc' = "idle"
    /\ meteo_data' = NoData
    /\ hydro_data' = NoData
    /\ precipitation' = None
    /\ discharge' = None
    /\ water_level' = None
    /\ risk_level' = "unset"
    /\ alert_status' = "unset"
    /\ risk_reasons' = <<>>
    /\ result' = NoResult
    /\ PredictFrame

PredictInit ==
    /\ pc = "idle"
    /\ meteo_data = NoData
    /\ hydro_data = NoData
    /\ precipitation = None
    /\ discharge = None
    /\ water_level = None
    /\ risk_level = "unset"
    /\ alert_status = "unset"
    /\ risk_reasons = <<>>
    /\ result = NoResult

\* src/ontology_explorer.py:34-39
ExplorerInit ==
    /\ graph = None
    /\ last_loaded = None
    /\ load_status = "never"
    /\ ret = [op |-> "none", kind |-> "none", keys |-> {}]
    /\ nodes = <<>>
    /\ links = {}
    /\ rules = None
    /\ loading = [at |-> "idle", file |-> None]
    /\ store_order \in {"forward", "backward"}

(***************************************************************************)
(* The cache of src/app.py:83-95 and the threads that read and write it:   *)
(* the refresh thread (refresh_cache, started at line 1063) and a request  *)
(* handler of the threaded server (line 1067).  Every function of the      *)
(* cache reads the clock, tests its entry, and on a miss fetches, stores   *)
(* the data and then stores the timestamp: one step per access to the      *)
(* cache or the clock, so that the threads interleave between them.        *)
(***************************************************************************)
\* src/app.py:94
cache_lifetime == 300
\* src/app.py:856: time.sleep(cache["cache_lifetime"] - 10)
refresh_margin == 10

\* time.time() when the process starts
StartTime == 1000
\* the sleeps of the refresh thread and the requests of the handler that
\* the model follows
MaxSleeps == 2
MaxRequests == 2
MaxClock == StartTime + MaxSleeps * (cache_lifetime - refresh_margin)
\* the instants to which the clock advances while no thread sleeps it away
Instants == {StartTime + cache_lifetime}

Threads == {"refresh_cache", "request"}
DataKeys == {"meteo", "meteo_history", "hydro", "hydro_history", "flood_prediction"}
TimestampKey(key) == key \o "_timestamp"

\* src/app.py:49-50 and 911-912, 174, 886-887, 307: the arguments a request
\* may carry, the first of each being the default
Arguments ==
    [meteo |-> {None, Some("2025-08-01T12:00:00Z")},
     hydro |-> {208493, 208500},
     meteo_history |-> {<<5, 5>>, <<1, 10>>},
     hydro_history |-> {208493, 208500},
     flood_prediction |-> {None}]
DefaultArguments ==
    [meteo |-> None, hydro |-> 208493, meteo_history |-> <<5, 5>>,
     hydro_history |-> 208493, flood_prediction |-> None]

\* an error dict
ErrorData(message) ==
    [kind |-> "error", shape |-> "error", value |-> None, error |-> message]

\* lines 269, 289, 625, 628: isinstance(x, dict) and "error" in x
IsErrorNever(x) == FALSE
IsError(x) == x.kind = "error"

\* what the sources may answer: WIGOS (lines 211-262, 283, 303),
\* Open-Meteo (lines 100-172), FANFAR (lines 435-446, 493-498)
WigosOutcomes ==
    {"ok", "non_200", "no_features", "request_exception", "unexpected_exception"}
OpenMeteoOutcomes == {"ok", "error"}
FanfarOutcomes == {"ok", "non_200", "no_data", "exception"}

\* lines 199-305: the value get_current_meteo builds on a miss, with the
\* sources it queried and what each answered
MeteoFetches(date, failures) ==
    LET data(source, shapes) ==
            {[kind |-> "list", shape |-> s[1], value |-> s[2],
              about |-> date, source |-> source] : s \in shapes}
        readings == {<<"value", Some(v)>> : v \in {0, 35 * Scale}}
        attempt(w, o) ==
            IF w = "ok"
            THEN {[value |-> d, wigos |-> w, openmeteo |-> "not_queried"] :
                    d \in data("wigos", readings)}
            ELSE IF w = "unexpected_exception"
            THEN {[value |-> ErrorData("Une erreur inattendue s'est produite"),
                   wigos |-> w, openmeteo |-> "not_queried"]}
            ELSE IF o = "ok"
            THEN {[value |-> d, wigos |-> w, openmeteo |-> o] :
                    d \in data("openmeteo", readings)}
            ELSE {[value |-> ErrorData("Les données météorologiques ne sont pas disponibles actuellement"),
                   wigos |-> w, openmeteo |-> o]}
    IN  UNION {attempt(w, o) :
                w \in (IF failures THEN WigosOutcomes ELSE {"ok"}),
                o \in OpenMeteoOutcomes}

\* lines 429-498: the value get_current_hydro builds on a miss
HydroFetches(station_subid, failures) ==
    LET answer(f) ==
            IF f = "ok"
            THEN {[kind |-> "dict", shape |-> "value",
                   value |-> Some(IF station_subid = DefaultArguments.hydro
                                  THEN 55 * Scale ELSE 0),
                   about |-> station_subid]}
            ELSE {ErrorData(f)}
    IN  UNION {answer(f) : f \in (IF failures THEN FanfarOutcomes ELSE {"ok"})}

\* lines 321-413 and 514-604: the history functions; a parameter WIGOS does
\* not deliver is skipped (lines 350-358), only an exception gives an error
HistoryFetches(key, args, failures) ==
    {[kind |-> "dict", shape |-> "history", value |-> None, about |-> args]}
    \cup (IF failures THEN {ErrorData("exception")} ELSE {})

\* the values the function of a cache entry may build on a miss, each with
\* the sources queried for it
Fetches(key, args, failures) ==
    IF key = "meteo" THEN MeteoFetches(args, failures)
    ELSE LET values == IF key = "hydro" THEN HydroFetches(args, failures)
                       ELSE HistoryFetches(key, args, failures)
         IN  {[value |-> v, wigos |-> "not_queried", openmeteo |-> "not_queried"] :
                v \in values}

\* bool(x) of a cached value: an empty list is false
Truthy(x) == ~IsNone(x) /\ Val(x).shape # "empty"

\* lines 185, 317, 425, 510, 615
CacheValid(c, key, current_time) ==
    /\ Truthy(c[key])
    /\ ~IsNone(c[TimestampKey(key)]) /\ Val(c[TimestampKey(key)]) # 0
    /\ current_time - Val(c[TimestampKey(key)]) < cache_lifetime

\* lines 735-770: the rule cascade on the readings of one snapshot
Cascade(p, d, w) ==
    LET l1 == IF Rule1Fires(p, w) THEN "Élevé" ELSE "Faible"
        r1 == IF Rule1Fires(p, w) THEN <<Reason1(Val(p), Val(w))>> ELSE <<>>
        l2 == IF Rule2Fires(d) THEN RaiseToModerate(l1) ELSE l1
        r2 == IF Rule2Fires(d) THEN Append(r1, Reason2(Val(d))) ELSE r1
        l3 == IF Rule3Fires(d) THEN RaiseToModerate(l2) ELSE l2
        r3 == IF Rule3Fires(d) THEN Append(r2, Reason3(Val(d))) ELSE r2
        l4 == IF Rule4Fires(p) THEN RaiseLowToModerate(l3) ELSE l3
        r4 == IF Rule4Fires(p) THEN Append(r3, Reason4(Val(p))) ELSE r3
        l5 == IF Rule5Fires(p) THEN "Élevé" ELSE l4
        r5 == IF Rule5Fires(p) THEN Append(r4, Reason5(Val(p))) ELSE r4
    IN  [risk_level |-> l5,
         alert_status |-> IF Rule3Fires(d) THEN "Alerte" ELSE "Normal",
         reasons |-> WithDefaultReason(r5)]

\* lines 643-647 and 773-795: the result of an evaluation that reads the
\* clock at `now`
Prediction(m, h, now) ==
    LET c == Cascade(ExtractPrecipitation(m), ExtractDischarge(h),
                     ExtractWaterLevel(h))
    IN  [kind |-> "prediction", shape |-> "prediction",
         analysis_id |-> now, timestamp |-> now,
         risk_level |-> c.risk_level,
         alert_status |-> c.alert_status,
         reasons |-> c.reasons,
         precipitation |-> ExtractPrecipitation(m),
         discharge |-> ExtractDischarge(h),
         water_level |-> ExtractWaterLevel(h),
         recommendations |-> Recommendations(c.risk_level)]

\* a thread that runs no function of the cache; `wrote` is history: the
\* cache keys the thread's last call assigned
IdleThread ==
    [pc |-> "idle", op |-> "none", args |-> None, key |-> "none",
     current_time |-> 0, value |-> None, sources |-> None,
     meteo_data |-> None, hydro_data |-> None, ret |-> None,
     line |-> 834, wake |-> 0, calls |-> 0, wrote |-> {}]

\* src/app.py:83-95
CacheInit ==
    /\ cache = [k \in DataKeys \cup {TimestampKey(k) : k \in DataKeys} |-> None]
    /\ clock = StartTime
    /\ threads = [t \in Threads |-> IdleThread]
    /\ writer = [flood_prediction |-> None, flood_prediction_timestamp |-> None]

Init == PredictInit /\ ExplorerInit /\ CacheInit

PredictNext ==
    \/ PredictFetch
    \/ PredictBuildGraph
    \/ PredictRule1
    \/ PredictRule2
    \/ PredictRule3
    \/ PredictRule4
    \/ PredictRule5
    \/ PredictDefaultReason
    \/ PredictReturn
    \/ PredictNextCall

\* predict_flood alone: the classifier's runs
Spec == Init /\ [][PredictNext]_vars

(***************************************************************************)
(* The functions of the cache, one action per access to the cache or the   *)
(* clock.  `failures` tells whether the sources and the ontology file may  *)
(* fail.                                                                   *)
(***************************************************************************)
CacheFrame == UNCHANGED <<predictVars, explorerVars, catalogVars>>

\* lines 184, 316, 424, 509, 614: the function of entry `key` is entered and
\* reads the clock
Enter(th, key, args) ==
    [th EXCEPT !.key = key, !.args = args, !.current_time = clock,
               !.pc = "check", !.value = None, !.sources = None]

\* lines 859-966: a request handler calls the function of its route, one
\* of `routes`
Request(routes) ==
    /\ threads["request"].pc = "idle"
    /\ threads["request"].calls < MaxRequests
    /\ \E op \in routes :
        \E args \in Arguments[op] :
            threads' = [threads EXCEPT !["request"] =
                [Enter(IdleThread, op, args) EXCEPT
                    !.op = op, !.calls = threads["request"].calls + 1]]
    /\ UNCHANGED <<cache, clock, writer>>
    /\ CacheFrame

\* lines 843-844, 847-848
HistoryIsOld(key) ==
    \/ ~Truthy(cache[key])
    \/ IsNone(cache[TimestampKey(key)]) \/ Val(cache[TimestampKey(key)]) = 0
    \/ clock - Val(cache[TimestampKey(key)]) > cache_lifetime * 2

\* lines 830-856: the next statement of the loop of refresh_cache
RefreshCache ==
    LET th == threads["refresh_cache"]
        Call(op, next) ==
            [Enter(IdleThread, op, DefaultArguments[op])
                EXCEPT !.op = op, !.line = next]
        Skip(next) == [IdleThread EXCEPT !.line = next]
    IN  /\ th.pc = "idle"
        /\ threads' = [threads EXCEPT !["refresh_cache"] =
              CASE th.line = 834 -> Call("meteo", 837)
                [] th.line = 837 -> Call("hydro", 840)
                [] th.line = 840 -> Call("flood_prediction", 843)
                [] th.line = 843 ->
                      IF HistoryIsOld("meteo_history")
                      THEN Call("meteo_history", 847) ELSE Skip(847)
                [] th.line = 847 ->
                      IF HistoryIsOld("hydro_history")
                      THEN Call("hydro_history", 856) ELSE Skip(856)
                [] th.line = 856 ->
                      [IdleThread EXCEPT
                          !.pc = "sleeping",
                          !.wake = clock + cache_lifetime - refresh_margin]]
        /\ UNCHANGED <<cache, clock, writer>>
        /\ CacheFrame

\* line 856: the sleep ends and the loop starts over
RefreshWake ==
    LET th == threads["refresh_cache"]
    IN  /\ th.pc = "sleeping"
        /\ th.wake <= MaxClock
        /\ clock' = IF clock < th.wake THEN th.wake ELSE clock
        /\ threads' = [threads EXCEPT !["refresh_cache"] = IdleThread]
        /\ UNCHANGED <<cache, writer>>
        /\ CacheFrame

\* time passes
Tick ==
    /\ \E i \in Instants : i > clock /\ clock' = i
    /\ UNCHANGED <<cache, threads, writer>>
    /\ CacheFrame

\* lines 185, 317, 425, 510, 615: the test of the entry; predict_flood goes
\* on to get_current_meteo (line 621)
Check(t) ==
    LET th == threads[t]
    IN  /\ th.pc = "check"
        /\ threads' = [threads EXCEPT ![t] =
              IF CacheValid(cache, th.key, th.current_time)
              THEN [th EXCEPT !.pc = "hit"]
              ELSE IF th.key = "flood_prediction"
              THEN Enter(th, "meteo", DefaultArguments.meteo)
              ELSE [th EXCEPT !.pc = "miss"]]
        /\ UNCHANGED <<cache, clock, writer>>
        /\ CacheFrame

\* lines 187, 319, 427, 512, 617: return cache[key]
Hit(t) ==
    LET th == threads[t]
    IN  /\ th.pc = "hit"
        /\ threads' = [threads EXCEPT ![t] =
                          [th EXCEPT !.value = cache[th.key], !.pc = "return"]]
        /\ UNCHANGED <<cache, clock, writer>>
        /\ CacheFrame

\* lines 199-305, 321-413, 429-498, 514-604: fetch; an error is returned,
\* data are stored in the entry (lines 255, 274, 294, 406, 487, 593)
Miss(t, failures) ==
    LET th == threads[t]
    IN  /\ th.pc = "miss"
        /\ \E f \in Fetches(th.key, th.args, failures) :
            /\ threads' = [threads EXCEPT ![t] =
                  [th EXCEPT !.value = Some(f.value),
                             !.sources = Some([wigos |-> f.wigos,
                                               openmeteo |-> f.openmeteo]),
                             !.wrote = IF IsError(f.value) THEN th.wrote
                                        ELSE th.wrote \cup {th.key},
                             !.pc = IF IsError(f.value)
                                    THEN "return" ELSE "stamp"]]
            /\ cache' = IF IsError(f.value) THEN cache
                        ELSE [cache EXCEPT ![th.key] = Some(f.value)]
        /\ UNCHANGED <<clock, writer>>
        /\ CacheFrame

\* lines 619-818: both inputs are there; build the graph, classify, and
\* store the result in the entry.  The ontology file failing to parse is
\* caught at line 824.
Evaluate(t, failures) ==
    LET th == threads[t]
        built == Prediction(Val(th.meteo_data), Val(th.hydro_data), clock)
    IN  /\ th.pc = "evaluate"
        /\ \E ontologyOk \in (IF failures THEN BOOLEAN ELSE {TRUE}) :
            IF ontologyOk
            THEN /\ threads' = [threads EXCEPT ![t] =
                        [th EXCEPT !.value = Some(built), !.pc = "stamp",
                                   !.wrote = th.wrote \cup {th.key}]]
                 /\ cache' = [cache EXCEPT !.flood_prediction = Some(built)]
                 /\ writer' = [writer EXCEPT !.flood_prediction = Some(<<t, clock>>)]
            ELSE /\ threads' = [threads EXCEPT ![t] =
                        [th EXCEPT !.value = Some(ErrorData("exception")),
                                   !.pc = "return"]]
                 /\ UNCHANGED <<cache, writer>>
        /\ UNCHANGED clock
        /\ CacheFrame

\* lines 256, 275, 295, 407, 488, 594, 819: cache[key + "_timestamp"] =
\* time.time()
Stamp(t) ==
    LET th == threads[t]
    IN  /\ th.pc = "stamp"
        /\ cache' = [cache EXCEPT ![TimestampKey(th.key)] = Some(clock)]
        /\ writer' = IF th.key = "flood_prediction"
                     THEN [writer EXCEPT !.flood_prediction_timestamp =
                              Some(<<t, Val(th.value).analysis_id>>)]
                     ELSE writer
        /\ threads' = [threads EXCEPT ![t] =
              [th EXCEPT !.pc = "return",
                         !.wrote = th.wrote \cup {TimestampKey(th.key)}]]
        /\ UNCHANGED clock
        /\ CacheFrame

\* the function returns: to predict_flood (lines 621-629), which goes on to
\* get_current_hydro, to the test of both inputs and to the evaluation, or
\* to the caller of the thread
Return(t) ==
    LET th == threads[t]
        inner == th.op = "flood_prediction" /\ th.key # th.op
        cause == FetchError(Val(th.meteo_data), Val(th.value))
    IN  /\ th.pc = "return"
        /\ threads' = [threads EXCEPT ![t] =
              IF inner /\ th.key = "meteo"
              THEN [Enter(th, "hydro", DefaultArguments.hydro)
                        EXCEPT !.meteo_data = th.value]
              ELSE IF inner
              THEN [th EXCEPT !.key = "flood_prediction", !.args = None,
                              !.hydro_data = th.value, !.sources = None,
                              !.value = IF cause = "none" THEN None
                                        ELSE Some(ErrorData(cause)),
                              !.pc = IF cause = "none" THEN "evaluate"
                                     ELSE "return"]
              ELSE [IdleThread EXCEPT !.op = th.op, !.args = th.args,
                                      !.ret = th.value, !.line = th.line,
                                      !.calls = th.calls, !.wrote = th.wrote]]
        /\ UNCHANGED <<cache, clock, writer>>
        /\ CacheFrame

\* the refresh thread and a handler of /api/v1/prediction/flood, with
\* sources that answer
OverlapNext ==
    \/ Tick
    \/ Request({"flood_prediction"})
    \/ RefreshCache
    \/ RefreshWake
    \/ \E t \in Threads :
        \/ Check(t)
        \/ Hit(t)
        \/ Miss(t, FALSE)
        \/ Evaluate(t, FALSE)
        \/ Stamp(t)
        \/ Return(t)

SpecOverlap == Init /\ [][OverlapNext]_vars

\* the requests of one handler, one after the other, with sources that may
\* fail
RequestsNext ==
    \/ Tick
    \/ Request(DataKeys)
    \/ Check("request")
    \/ Hit("request")
    \/ Miss("request", TRUE)
    \/ Evaluate("request", TRUE)
    \/ Stamp("request")
    \/ Return("request")

SpecRequests == Init /\ [][RequestsNext]_vars

\* the refresh thread alone, with sources that answer: time passes only
\* while it sleeps
RefreshNext ==
    \/ RefreshCache
    \/ RefreshWake
    \/ Check("refresh_cache")
    \/ Hit("refresh_cache")
    \/ Miss("refresh_cache", FALSE)
    \/ Evaluate("refresh_cache", FALSE)
    \/ Stamp("refresh_cache")
    \/ Return("refresh_cache")

SpecRefresh == Init /\ [][RefreshNext]_vars


(***************************************************************************)
(* RDF terms and graphs (rdflib).  A term is a URI reference, given by its *)
(* namespace and the fragment after '#', or a literal; a graph is a set of *)
(* triples <<subject, predicate, object>>.                                 *)
(***************************************************************************)
Term(ns, name) == [ns |-> ns, name |-> name]
\* rdflib's RDF, RDFS and OWL namespaces
RDF == [type |-> Term("rdf", "type")]
RDFS ==
    [subClassOf |-> Term("rdfs", "subClassOf"), domain |-> Term("rdfs", "domain"),
     range |-> Term("rdfs", "range")]
OWL ==
    [Class |-> Term("owl", "Class"), Thing |-> Term("owl", "Thing"),
     ObjectProperty |-> Term("owl", "ObjectProperty"),
     DatatypeProperty |-> Term("owl", "DatatypeProperty"),
     NamedIndividual |-> Term("owl", "NamedIndividual"),
     Ontology |-> Term("owl", "Ontology")]
\* src/ontology_explorer.py:21, src/inference_explainer.py:8
FLOOD_NS(name) == Term("flood", name)
\* the terms of that namespace the files and the code name
FLOOD ==
    [n \in {"Zone", "Station", "isLocatedIn", "isDownstreamOf", "hasName",
            "hasRiskLevel", "hasRainfall", "hasDrainageCapacity",
            "hasElevation", "hasProximityToWater"} |-> FLOOD_NS(n)]
LiteralTerm(text) == Term("literal", text)
OntologyURI == Term("ontology", "ouagadougou-flood-prediction")

\* isinstance(x, URIRef)
IsURIRef(t) == t.ns # "literal"
\* x.startswith(FLOOD_NS)
StartsWithFloodNS(t) == t.ns = "flood"
\* str(x).split('#')[-1]
LocalName(t) ==
    LET hashes == {i \in 1..Len(t.name) : SubSeq(t.name, i, i) = "#"}
    IN  IF hashes = {} THEN t.name
        ELSE SubSeq(t.name,
                    (CHOOSE i \in hashes : \A j \in hashes : j <= i) + 1,
                    Len(t.name))

\* graph.subjects(p, o), graph.objects(s, p)
Subjects(g, p, o) == {t[1] : t \in {u \in g : u[2] = p /\ u[3] = o}}
Objects(g, s, p) == {t[3] : t \in {u \in g : u[1] = s /\ u[2] = p}}

(***************************************************************************)
(* The ontology files a load may find on disk.                             *)
(***************************************************************************)
\* the largest number of named individuals in a file
MaxIndividuals == 31
\* loads that succeed, after which the clock of last_loaded stops
MaxLoads == 2
\* src/ontology_explorer.py:536
max_individuals == 30

IndividualNames == <<"i01", "i02", "i03", "i04", "i05", "i06", "i07", "i08", "i09", "i10", "i11", "i12", "i13", "i14", "i15", "i16", "i17", "i18", "i19", "i20", "i21", "i22", "i23", "i24", "i25", "i26", "i27", "i28", "i29", "i30", "i31", "i32", "i33", "i34", "i35", "i36", "i37", "i38", "i39", "i40", "old#i01">>
Individual(k) == FLOOD_NS(IndividualNames[k])


\* the schema of a file: the classes and object properties it declares,
\* whether it has an owl:Ontology header, the individuals without a class,
\* whether Zone is also declared a subclass of Station, and which facts it
\* states about the first zone
FullSchema ==
    [classes |-> {FLOOD.Zone, FLOOD.Station},
     props |-> {FLOOD.isLocatedIn, FLOOD.isDownstreamOf},
     onto |-> TRUE, untyped |-> {}, cycle |-> FALSE, facts |-> "none",
     alias |-> FALSE]
Schemas ==
    { FullSchema,
      [FullSchema EXCEPT !.classes = {FLOOD.Zone}],
      [FullSchema EXCEPT !.classes = {}],
      [FullSchema EXCEPT !.props = {FLOOD.isDownstreamOf}, !.untyped = {2}],
      [FullSchema EXCEPT !.props = {}],
      [FullSchema EXCEPT !.onto = FALSE],
      [FullSchema EXCEPT !.alias = TRUE] }

IndividualCounts == {0, 2} \cup (max_individuals..MaxIndividuals)

\* files of two individuals that state risk factors of the first zone, and
\* one whose class hierarchy has a cycle
FactSchemas ==
    {[FullSchema EXCEPT !.facts = k] :
        k \in {"crossing", "threshold", "beyond", "odd", "multi", "signed"}}
    \cup {[FullSchema EXCEPT !.cycle = TRUE]}

FactsOf(kind) ==
    LET z == Individual(1)
        F(rain, drain, elev, prox) ==
            {<<z, FLOOD.hasRainfall, LiteralTerm(x)>> : x \in rain}
            \cup {<<z, FLOOD.hasDrainageCapacity, LiteralTerm(x)>> : x \in drain}
            \cup {<<z, FLOOD.hasElevation, LiteralTerm(x)>> : x \in elev}
            \cup {<<z, FLOOD.hasProximityToWater, LiteralTerm(x)>> : x \in prox}
        risk == {<<z, FLOOD.hasRiskLevel, FLOOD_NS("HighRisk")>>}
    IN  CASE kind = "none" -> {}
          [] kind = "crossing" ->
                F({"150"}, {"20"}, {"5.5"}, {"499.95"}) \cup risk
          [] kind = "threshold" ->
                F({"100"}, {"30"}, {"10.0"}, {"500"}) \cup risk
          [] kind = "beyond" ->
                F({"100.1"}, {"29.9"}, {"9.99"}, {"500.1"})
          [] kind = "odd" ->
                F({"heavy"}, {""}, {}, {"1.2.3"})
                \cup {<<z, FLOOD.hasElevation, FLOOD_NS("5")>>,
                      <<z, FLOOD.hasName, FLOOD_NS("Wayen")>>}
                \cup risk
          [] kind = "multi" ->
                F({"150", "50"}, {"20", "poor"}, {"10", "12"}, {"400", "450"})
                \cup risk \cup {<<z, FLOOD.hasRiskLevel, FLOOD_NS("MediumRisk")>>}
          [] kind = "signed" ->
                F({"-5"}, {"+29.5"}, {"-2.5"}, {"0"}) \cup risk

SchemaTriples(v) ==
    (IF v.onto THEN {<<OntologyURI, RDF.type, OWL.Ontology>>} ELSE {})
    \cup {<<c, RDF.type, OWL.Class>> : c \in v.classes}
    \cup {<<FLOOD.Station, RDFS.subClassOf, FLOOD.Zone>>}
    \cup (IF v.alias THEN {<<FLOOD_NS("v1#Zone"), RDF.type, OWL.Class>>} ELSE {})
    \cup (IF v.cycle THEN {<<FLOOD.Zone, RDFS.subClassOf, FLOOD.Station>>} ELSE {})
    \cup {<<q, RDF.type, OWL.ObjectProperty>> : q \in v.props}
    \cup (IF FLOOD.isLocatedIn \in v.props
          THEN {<<FLOOD.isLocatedIn, RDFS.domain, FLOOD.Station>>,
                <<FLOOD.isLocatedIn, RDFS.range, FLOOD.Zone>>}
          ELSE {})

IndividualTriples(n, v) ==
    {<<Individual(k), RDF.type, OWL.NamedIndividual>> : k \in 1..n}
    \cup {<<Individual(k), RDF.type,
             IF k % 2 = 1 THEN FLOOD.Zone ELSE FLOOD.Station>> :
            k \in (1..n) \ v.untyped}
    \cup (IF n >= 1 THEN {<<Individual(1), FLOOD.hasName, LiteralTerm("Wayen")>>} ELSE {})
    \cup (IF n >= 1 THEN FactsOf(v.facts) ELSE {})
    \cup (IF n >= 1 /\ v.alias
          THEN {<<Individual(Len(IndividualNames)), RDF.type, ty>> :
                    ty \in {OWL.NamedIndividual, FLOOD.Zone}}
          ELSE {})
    \cup (IF n >= 2
          THEN {<<Individual(2), FLOOD.isLocatedIn, Individual(1)>>,
                <<Individual(2), FLOOD.isDownstreamOf, Individual(1)>>,
                <<Individual(n), FLOOD.isDownstreamOf, Individual(1)>>}
          ELSE {})

FileIds == (IndividualCounts \X Schemas) \cup ({2} \X FactSchemas)
FileOf(id) == SchemaTriples(id[2]) \cup IndividualTriples(id[1], id[2])
\* what a parse that fails midway may have added: the schema, no individual
PartialFileOf(id) == SchemaTriples(id[2])

(***************************************************************************)
(* owlrl.DeductiveClosure(OWLRL_Semantics).expand(graph), restricted to    *)
(* the OWL-RL rules these files exercise: scm-cls, scm-sco, cax-sco,       *)
(* prp-dom, prp-rng.                                                       *)
(***************************************************************************)
ClosureStep(g) ==
    LET types == {t \in g : t[2] = RDF.type}
        subs == {t \in g : t[2] = RDFS.subClassOf}
        doms == {t \in g : t[2] = RDFS.domain}
        rngs == {t \in g : t[2] = RDFS.range}
    IN  g
        \cup {<<t[1], RDFS.subClassOf, t[1]>> : t \in {u \in types : u[3] = OWL.Class}}
        \cup {<<t[1], RDFS.subClassOf, OWL.Thing>> :
                t \in {u \in types : u[3] = OWL.Class}}
        \cup {<<x[1][1], RDFS.subClassOf, x[2][3]>> :
                x \in {y \in subs \X subs : y[1][3] = y[2][1]}}
        \cup {<<x[1][1], RDF.type, x[2][3]>> :
                x \in {y \in types \X subs : y[1][3] = y[2][1]}}
        \cup {<<x[1][1], RDF.type, x[2][3]>> :
                x \in {y \in g \X doms : y[1][2] = y[2][1]}}
        \cup {<<x[1][3], RDF.type, x[2][3]>> :
                x \in {y \in g \X rngs : y[1][2] = y[2][1] /\ IsURIRef(y[1][3])}}

\* a single pass of the rules
ClosureOnePass(g) == ClosureStep(g)
RECURSIVE Closure(_)
Closure(g) == IF ClosureStep(g) = g THEN g ELSE Closure(ClosureStep(g))

\* the graphs a load can leave in self.graph, computed once per file
ClosedFiles == [id \in FileIds |-> Closure(FileOf(id))]

(***************************************************************************)
(* OntologyExplorer.load_ontology (src/ontology_explorer.py:41-74).        *)
(* A load that is attempted assigns a fresh Graph() to self.graph before   *)
(* parsing (line 58); parse or expand raising leaves in self.graph         *)
(* whatever was added so far and returns False (lines 72-74).              *)
(***************************************************************************)
LoadCount == IF IsNone(last_loaded) THEN 0 ELSE Val(last_loaded)

\* src/ontology_explorer.py:51-52
LoadSkipped(force_reload) == ~IsNone(graph) /\ ~force_reload

\* the outcomes of one call: the new self.graph and self.last_loaded, the
\* value returned, and the outcome of the latest attempt
LoadOutcomes(force_reload) ==
    IF LoadSkipped(force_reload)
    THEN {[graph |-> graph, last_loaded |-> last_loaded, ok |-> TRUE,
           status |-> load_status]}
    ELSE
        \* lines 58-70: parsed and closed
        {[graph |-> Some(ClosedFiles[id]), last_loaded |-> Some(LoadCount + 1),
          ok |-> TRUE, status |-> "ok"] : id \in {i \in FileIds : LoadCount < MaxLoads}}
        \* line 59 raises: nothing or only a part was parsed
        \cup {[graph |-> Some(part), last_loaded |-> last_loaded,
               ok |-> FALSE, status |-> "failed"] :
                part \in {{}} \cup {PartialFileOf(id) : id \in FileIds}}
        \* line 63 raises: parsed, not closed
        \cup {[graph |-> Some(FileOf(id)), last_loaded |-> last_loaded,
               ok |-> FALSE, status |-> "failed"] : id \in FileIds}

(***************************************************************************)
(* OntologyExplorer.get_ontology_visualization_data                        *)
(* (src/ontology_explorer.py:462-696).  Node values are in tenths.         *)
(***************************************************************************)
RECURSIVE SetToSeq(_)
SetToSeq(S) ==
    IF S = {} THEN <<>>
    ELSE LET x == CHOOSE y \in S : TRUE IN <<x>> \o SetToSeq(S \ {x})

NodeIds(ns) == {ns[i].id : i \in 1..Len(ns)}

\* lines 495 and 511, 519 and 532, 543 and 563: a node id is added once
AddNode(ns, node) == IF node.id \in NodeIds(ns) THEN ns ELSE Append(ns, node)

RECURSIVE AddNodes(_, _)
AddNodes(ns, new) ==
    IF new = <<>> THEN ns ELSE AddNodes(AddNode(ns, Head(new)), Tail(new))

\* lines 477-487
ClassImportance(g, cls) ==
    10 + 5 * Cardinality(Subjects(g, RDFS.subClassOf, cls))
       + 3 * Cardinality(Subjects(g, RDF.type, cls))
       + 2 * (Cardinality(Subjects(g, RDFS.domain, cls))
              + Cardinality(Subjects(g, RDFS.range, cls)))

\* lines 489-511
ClassNodes(g) ==
    SetToSeq({[id |-> <<"class", LocalName(cls)>>, name |-> LocalName(cls),
               type |-> "class", value |-> ClassImportance(g, cls)] :
                cls \in {c \in Subjects(g, RDF.type, OWL.Class) :
                            IsURIRef(c) /\ StartsWithFloodNS(c)}})

\* lines 513-532
PropertyNodes(g) ==
    SetToSeq({[id |-> <<"prop", LocalName(q)>>, name |-> LocalName(q),
               type |-> "property", value |-> 7] :
                q \in {r \in Subjects(g, RDF.type, OWL.ObjectProperty) :
                            IsURIRef(r) /\ StartsWithFloodNS(r)}})

\* line 538: the order in which the graph yields the named individuals
IndividualOrder(g, ascending) ==
    LET S == Subjects(g, RDF.type, OWL.NamedIndividual)
        N == Len(IndividualNames)
    IN  SelectSeq([k \in 1..N |-> Individual(IF ascending THEN k ELSE N + 1 - k)],
                  LAMBDA x : x \in S)

\* lines 546-548
IndividualTypes(g, indiv) ==
    {ty \in Objects(g, indiv, RDF.type) :
        IsURIRef(ty) /\ ty # OWL.NamedIndividual /\ StartsWithFloodNS(ty)}

\* a link, with the number of nodes in the list when it was emitted
Link(source, target, type, at) ==
    [source |-> source, target |-> target, type |-> type, at |-> at]

\* lines 566-578
InstanceOfLinks(g, indiv, ns) ==
    {Link(<<"indiv", LocalName(indiv)>>, <<"class", LocalName(ty)>>,
          "instanceOf", Len(ns)) :
        ty \in {u \in IndividualTypes(g, indiv) :
                    <<"class", LocalName(u)>> \in NodeIds(ns)}}

\* line 539: the cap on the individuals added so far
WithinCapInclusive(individuals_added) == individuals_added <= max_individuals
WithinCap(individuals_added) == individuals_added < max_individuals

\* lines 538-564, the loop over the individuals in closed form.  An
\* individual is a candidate when it passes the tests of lines 539, 543 and
\* 551 that do not depend on the loop; a candidate whose node id an earlier
\* candidate already has is skipped by line 543 and counts for nothing; the
\* r-th remaining candidate finds individuals_added = r - 1 if the cap left
\* room for all before it, and is added exactly when the cap leaves room.
Candidates(g, schema, order) ==
    SelectSeq(order,
              LAMBDA indiv :
                /\ IsURIRef(indiv) /\ StartsWithFloodNS(indiv)
                /\ <<"indiv", LocalName(indiv)>> \notin NodeIds(schema)
                /\ IndividualTypes(g, indiv) # {})

FirstOccurrences(c) ==
    LET kept == SelectSeq([k \in 1..Len(c) |-> k],
                          LAMBDA k : \A j \in 1..(k - 1) :
                                        LocalName(c[j]) # LocalName(c[k]))
    IN  [r \in 1..Len(kept) |-> c[kept[r]]]

AddedIndividuals(g, schema, order) ==
    LET firsts == FirstOccurrences(Candidates(g, schema, order))
        count == Cardinality({r \in 1..Len(firsts) : WithinCap(r - 1)})
    IN  SubSeq(firsts, 1, count)

IndividualNode(indiv) ==
    [id |-> <<"indiv", LocalName(indiv)>>, name |-> LocalName(indiv),
     type |-> "individual", value |-> 5]

\* lines 534-578: the node list after the loop, and the instanceOf links,
\* each emitted right after its individual's node was appended
AddIndividuals(g, schema, order) ==
    LET added == AddedIndividuals(g, schema, order)
        ns == schema \o [r \in 1..Len(added) |-> IndividualNode(added[r])]
    IN  [nodes |-> ns,
         links |-> UNION {InstanceOfLinks(g, added[r],
                                          SubSeq(ns, 1, Len(schema) + r)) :
                            r \in 1..Len(added)},
         individuals_added |-> Len(added)]

\* lines 580-595
SubClassLinks(g, ns) ==
    {Link(<<"class", LocalName(t[1])>>, <<"class", LocalName(t[3])>>,
          "subClassOf", Len(ns)) :
        t \in {u \in g :
                /\ u[2] = RDFS.subClassOf
                /\ IsURIRef(u[1]) /\ IsURIRef(u[3])
                /\ StartsWithFloodNS(u[1]) /\ StartsWithFloodNS(u[3])
                /\ <<"class", LocalName(u[1])>> \in NodeIds(ns)
                /\ <<"class", LocalName(u[3])>> \in NodeIds(ns)}}

\* lines 597-630
DomainRangeLinks(g, ns) ==
    LET props == {q \in Subjects(g, RDF.type, OWL.ObjectProperty) :
                    IsURIRef(q) /\ StartsWithFloodNS(q)}
    IN  {Link(<<"class", LocalName(x[2])>>, <<"prop", LocalName(x[1])>>,
              "hasDomain", Len(ns)) :
            x \in {y \in props \X {t[3] : t \in {u \in g : u[2] = RDFS.domain}} :
                    /\ y[2] \in Objects(g, y[1], RDFS.domain)
                    /\ IsURIRef(y[2]) /\ StartsWithFloodNS(y[2])
                    /\ <<"class", LocalName(y[2])>> \in NodeIds(ns)
                    /\ <<"prop", LocalName(y[1])>> \in NodeIds(ns)}}
        \cup
        {Link(<<"prop", LocalName(x[1])>>, <<"class", LocalName(x[2])>>,
              "hasRange", Len(ns)) :
            x \in {y \in props \X {t[3] : t \in {u \in g : u[2] = RDFS.range}} :
                    /\ y[2] \in Objects(g, y[1], RDFS.range)
                    /\ IsURIRef(y[2]) /\ StartsWithFloodNS(y[2])
                    /\ <<"prop", LocalName(y[1])>> \in NodeIds(ns)
                    /\ <<"class", LocalName(y[2])>> \in NodeIds(ns)}}

\* lines 649: both ends of an assertion must be nodes
BothEndsAreNodesUnchecked(source_id, target_id, ns) == TRUE
BothEndsAreNodes(source_id, target_id, ns) ==
    source_id \in NodeIds(ns) /\ target_id \in NodeIds(ns)

\* lines 632-656
AssertionLinks(g, ns) ==
    {[source |-> <<"indiv", LocalName(t[1])>>,
      target |-> <<"indiv", LocalName(t[3])>>,
      type |-> "objectPropertyAssertion", at |-> Len(ns)] :
        t \in {u \in g :
                /\ IsURIRef(u[1]) /\ IsURIRef(u[2]) /\ IsURIRef(u[3])
                /\ StartsWithFloodNS(u[1]) /\ StartsWithFloodNS(u[2])
                /\ StartsWithFloodNS(u[3])
                /\ <<u[1], RDF.type, OWL.NamedIndividual>> \in g
                /\ <<u[3], RDF.type, OWL.NamedIndividual>> \in g
                /\ <<u[2], RDF.type, OWL.ObjectProperty>> \in g
                /\ BothEndsAreNodes(<<"indiv", LocalName(u[1])>>,
                                    <<"indiv", LocalName(u[3])>>, ns)}}

\* lines 473-656: the node list and the links the operation accumulates
BuildVisualization(g, ascending) ==
    LET schema == AddNodes(AddNodes(<<>>, ClassNodes(g)), PropertyNodes(g))
        acc == AddIndividuals(g, schema, IndividualOrder(g, ascending))
    IN  [nodes |-> acc.nodes,
         links |-> acc.links \cup SubClassLinks(g, acc.nodes)
                             \cup DomainRangeLinks(g, acc.nodes)
                             \cup AssertionLinks(g, acc.nodes)]

\* lines 658-696: ontology_uri is bound only if the graph has an
\* owl:Ontology subject (else line 663 raises UnboundLocalError, which the
\* endpoint turns into an error response, src/app.py:1029-1031); the dict
\* returned is the description of the ontology
OntologyHeaders(g) ==
    {h \in Subjects(g, RDF.type, OWL.Ontology) : IsURIRef(h)}

DescriptionKeys == {"uri", "title", "description", "details", "version", "created"}

VisualizationReturn(g, built) ==
    IF OntologyHeaders(g) = {}
    THEN [op |-> "get_ontology_visualization_data", kind |-> "exception",
          keys |-> {}]
    ELSE [op |-> "get_ontology_visualization_data", kind |-> "dict",
          keys |-> DescriptionKeys]

LoadErrorReturn(op) == [op |-> op, kind |-> "error", keys |-> {"error"}]

\* lines 348-384
Statistics(g, loaded) ==
    [classes |-> Cardinality(Subjects(g, RDF.type, OWL.Class)),
     object_properties |-> Cardinality(Subjects(g, RDF.type, OWL.ObjectProperty)),
     data_properties |-> Cardinality(Subjects(g, RDF.type, OWL.DatatypeProperty)),
     individuals |-> Cardinality(Subjects(g, RDF.type, OWL.NamedIndividual)),
     object_property_assertions |->
        Cardinality({t \in g : t[2] # RDF.type /\ IsURIRef(t[2]) /\ IsURIRef(t[3])}),
     data_property_assertions |->
        Cardinality({t \in g : t[2] # RDF.type /\ IsURIRef(t[2]) /\ ~IsURIRef(t[3])}),
     total_triples |-> Cardinality(g),
     last_loaded |-> loaded]

(***************************************************************************)
(* The operations of the explorer, as the endpoints call them.             *)
(***************************************************************************)
ExplorerFrame == UNCHANGED <<predictVars, catalogVars, cacheVars>>

\* src/app.py:1055-1059: load_ontology(force_reload=True)
ReloadOntology ==
    /\ \E o \in LoadOutcomes(TRUE) :
        /\ graph' = o.graph
        /\ last_loaded' = o.last_loaded
        /\ load_status' = o.status
        /\ ret' = [op |-> "load_ontology", kind |-> "bool", keys |-> {},
                   value |-> o.ok]
    /\ nodes' = <<>>
    /\ links' = {}
    /\ ExplorerFrame

\* src/ontology_explorer.py:462-696
GetOntologyVisualizationData ==
    /\ \E o \in LoadOutcomes(FALSE), ascending \in BOOLEAN :
        /\ graph' = o.graph
        /\ last_loaded' = o.last_loaded
        /\ load_status' = o.status
        /\ IF ~o.ok
           THEN /\ ret' = LoadErrorReturn("get_ontology_visualization_data")
                /\ nodes' = <<>>
                /\ links' = {}
           ELSE LET built == BuildVisualization(Val(o.graph), ascending)
                IN  /\ nodes' = built.nodes
                    /\ links' = built.links
                    /\ ret' = VisualizationReturn(Val(o.graph), built)
    /\ ExplorerFrame

\* src/ontology_explorer.py:348-384
GetOntologyStatistics ==
    /\ \E o \in LoadOutcomes(FALSE) :
        /\ graph' = o.graph
        /\ last_loaded' = o.last_loaded
        /\ load_status' = o.status
        /\ ret' = IF ~o.ok THEN LoadErrorReturn("get_ontology_statistics")
                  ELSE [op |-> "get_ontology_statistics", kind |-> "dict",
                        keys |-> {"classes", "object_properties", "data_properties",
                                  "individuals", "object_property_assertions",
                                  "data_property_assertions", "total_triples",
                                  "last_loaded"},
                        value |-> Statistics(Val(o.graph), o.last_loaded)]
    /\ nodes' = <<>>
    /\ links' = {}
    /\ ExplorerFrame

ExplorerNext ==
    \/ ReloadOntology
    \/ GetOntologyStatistics
    \/ GetOntologyVisualizationData

\* one OntologyExplorer and the calls made on it
SpecExplorer == Init /\ [][ExplorerNext]_vars

(***************************************************************************)
(* load_ontology(force_reload=True) statement by statement, as a request   *)
(* of the threaded server (src/app.py:1067) runs it while other requests   *)
(* read self.graph.  No lock guards self.graph.                            *)
(***************************************************************************)
ReloadFrame ==
    UNCHANGED <<predictVars, rules, store_order, nodes, links, cacheVars>>

ReloadReturn(ok) ==
    [op |-> "load_ontology", kind |-> "bool", keys |-> {}, value |-> ok]

\* src/ontology_explorer.py:51-58: force_reload skips the early return; the
\* attribute is bound to a new, empty Graph()
ReloadBegin ==
    /\ loading.at = "idle"
    /\ graph' = Some({})
    /\ loading' = [at |-> "parse", file |-> None]
    \* the call in flight has returned nothing yet
    /\ ret' = [op |-> "load_ontology", kind |-> "running", keys |-> {}]
    /\ UNCHANGED <<last_loaded, load_status>>
    /\ ReloadFrame

\* line 59: parse fills self.graph in place from the file found on disk, or
\* raises after adding nothing or a part (lines 72-74 return False)
ReloadParse ==
    /\ loading.at = "parse"
    /\ \E id \in FileIds :
        \/ /\ graph' = Some(FileOf(id))
           /\ loading' = [at |-> "expand", file |-> Some(id)]
           /\ UNCHANGED <<ret, load_status>>
        \/ /\ graph' \in {Some({}), Some(PartialFileOf(id))}
           /\ loading' = [at |-> "idle", file |-> None]
           /\ ret' = ReloadReturn(FALSE)
           /\ load_status' = "failed"
    /\ UNCHANGED last_loaded
    /\ ReloadFrame

\* line 63: expand adds the inferred triples to self.graph in place, or
\* raises (lines 72-74 return False)
ReloadExpand ==
    /\ loading.at = "expand"
    /\ \/ /\ LoadCount < MaxLoads
          /\ graph' = Some(ClosedFiles[Val(loading.file)])
          /\ loading' = [loading EXCEPT !.at = "stamp"]
          /\ UNCHANGED <<ret, load_status>>
       \/ /\ loading' = [at |-> "idle", file |-> None]
          /\ ret' = ReloadReturn(FALSE)
          /\ load_status' = "failed"
          /\ UNCHANGED graph
    /\ UNCHANGED last_loaded
    /\ ReloadFrame

\* lines 69-70
ReloadStamp ==
    /\ loading.at = "stamp"
    /\ last_loaded' = Some(LoadCount + 1)
    /\ load_status' = "ok"
    /\ loading' = [at |-> "idle", file |-> None]
    /\ ret' = ReloadReturn(TRUE)
    /\ UNCHANGED graph
    /\ ReloadFrame

ReloadNext ==
    \/ ReloadBegin
    \/ ReloadParse
    \/ ReloadExpand
    \/ ReloadStamp
    \/ GetOntologyStatistics

\* one reload request at a time, and the read requests served meanwhile
SpecReload == Init /\ [][ReloadNext]_vars

(***************************************************************************)
(* The rule catalog: OntologyExplorer.load_swrl_rules                      *)
(* (src/ontology_explorer.py:76-123).  A rule file is the list of its      *)
(* blocks after the header; a block is its description line and the lines  *)
(* that follow it.                                                         *)
(***************************************************************************)
RuleFiles ==
    { << [description |-> "Risque eleve par fortes pluies",
          lines |-> <<"Zone(?z) ^ hasRainfall(?z, ?r)",
                      "-> hasRiskLevel(?z, HighRisk)", "", "# fin">>],
         [description |-> "Risque modere sous un barrage",
          lines |-> <<"Zone(?z) -> hasRiskLevel(?z, Medium_Risk)">>],
         [description |-> "Alerte precoce a Wayen",
          lines |-> <<"Station(?s) -> hasAlertStatus(?s, Alert)">>],
         [description |-> "Risque eleve en zone basse",
          lines |-> <<"Zone(?z) -> hasRiskLevel(?z, High Risk)">>] >>,
      << [description |-> "Alerte precoce a Wayen",
          lines |-> <<"Station(?s) -> hasAlertStatus(?s, Alert)">>] >>,
      << >> }

\* lines 106-111: the stripped lines up to the first blank one
RECURSIVE RuleLines(_)
RuleLines(lines) ==
    IF lines = <<>> \/ Head(lines) = "" THEN <<>>
    ELSE <<Head(lines)>> \o RuleLines(Tail(lines))

\* " ".join(rule_text)
RECURSIVE JoinLines(_)
JoinLines(lines) ==
    IF lines = <<>> THEN ""
    ELSE IF Len(lines) = 1 THEN Head(lines)
    ELSE Head(lines) \o " " \o JoinLines(Tail(lines))

\* lines 125-163
ExplainRule(rule_id, description) ==
    IF rule_id \in 1..6 THEN <<"built-in explanation", rule_id>>
    ELSE <<"Regle", rule_id, description>>

\* lines 94-119: the dict built for each block
ParseRules(file) ==
    [i \in 1..Len(file) |->
        [id |-> i,
         description |-> file[i].description,
         rule |-> JoinLines(RuleLines(file[i].lines)),
         explanation |-> ExplainRule(i, file[i].description)]]

\* the outcomes of one call: the new self.rules and the list returned
LoadRulesOutcomes ==
    IF ~IsNone(rules)
    THEN {[rules |-> rules, returned |-> Val(rules)]}
    ELSE {[rules |-> Some(ParseRules(f)), returned |-> ParseRules(f)] :
            f \in RuleFiles}
         \* lines 121-123: the file cannot be read
         \cup {[rules |-> None, returned |-> <<>>]}

(***************************************************************************)
(* Python strings and float().                                             *)
(***************************************************************************)
\* sub in text
Contains(text, sub) ==
    \E i \in 1..(Len(text) - Len(sub) + 1) :
        SubSeq(text, i, i + Len(sub) - 1) = sub

DigitValue ==
    ("0" :> 0) @@ ("1" :> 1) @@ ("2" :> 2) @@ ("3" :> 3) @@ ("4" :> 4)
    @@ ("5" :> 5) @@ ("6" :> 6) @@ ("7" :> 7) @@ ("8" :> 8) @@ ("9" :> 9)

RECURSIVE DigitsValue(_)
DigitsValue(digits) ==
    IF Len(digits) = 0 THEN 0
    ELSE 10 * DigitsValue(SubSeq(digits, 1, Len(digits) - 1))
         + DigitValue[SubSeq(digits, Len(digits), Len(digits))]

RECURSIVE Pow10(_)
Pow10(e) == IF e = 0 THEN 1 ELSE 10 * Pow10(e - 1)

\* float(text) for a text without exponent, blank or underscore and with
\* no more digits than a double holds exactly: None for ValueError, else
\* the number m / 10^e
ParseFloat(text) ==
    LET n == Len(text)
        sign == IF n >= 1 /\ SubSeq(text, 1, 1) \in {"+", "-"}
                THEN SubSeq(text, 1, 1) ELSE ""
        body == IF sign = "" THEN text ELSE SubSeq(text, 2, n)
        k == Len(body)
        dots == {i \in 1..k : SubSeq(body, i, i) = "."}
        wellFormed == \A i \in 1..k :
                        i \in dots \/ SubSeq(body, i, i) \in DOMAIN DigitValue
        d == IF dots = {} THEN k + 1 ELSE CHOOSE i \in dots : TRUE
        whole == SubSeq(body, 1, d - 1)
        frac == IF d >= k THEN "" ELSE SubSeq(body, d + 1, k)
        mag == DigitsValue(whole \o frac)
    IN  IF wellFormed /\ Cardinality(dots) <= 1 /\ Len(whole \o frac) >= 1
        THEN Some([m |-> IF sign = "-" THEN 0 - mag ELSE mag, e |-> Len(frac)])
        ELSE None

\* float(x) > t, float(x) < t
GreaterThan(x, t) == x.m > t * Pow10(x.e)
LessThan(x, t) == x.m < t * Pow10(x.e)

(***************************************************************************)
(* InferenceExplainer.explain_inference (src/inference_explainer.py:22-168)*)
(***************************************************************************)
\* src/inference_explainer.py:122, 134, 146, 158
RAINFALL_THRESHOLD == 100
DRAINAGE_THRESHOLD == 30
ELEVATION_THRESHOLD == 10
PROXIMITY_THRESHOLD == 500

\* dict.get(key)
Get(d, key) == IF key \in DOMAIN d THEN Some(d[key]) ELSE None

\* graph.triples(pattern): the matching triples in the order of the store
Ordered(S) ==
    LET seq == SetToSeq(S)
    IN  IF store_order = "forward" THEN seq
        ELSE [i \in 1..Len(seq) |-> seq[Len(seq) + 1 - i]]

\* lines 60-67
PropertyVariants(inferred_property) ==
    CASE inferred_property = "HighRisk" -> {"HighRisk", "High_Risk", "High Risk"}
      [] inferred_property = "MediumRisk" ->
            {"MediumRisk", "Medium_Risk", "Medium Risk"}
      [] inferred_property = "LowRisk" -> {"LowRisk", "Low_Risk", "Low Risk"}
      [] OTHER -> {inferred_property}

\* lines 74, 91
RuleTextOf(rule) == IF "rule_text" \in DOMAIN rule THEN rule.rule_text ELSE ""

\* lines 79-83, 95-99
TriggeredRule(rule) ==
    [rule_id |-> Get(rule, "rule_id"),
     rule_text |-> RuleTextOf(rule),
     description |-> Get(rule, "description")]

\* line 76
StrictMatch(rule, inferred_property) ==
    /\ Contains(RuleTextOf(rule), "hasRiskLevel")
    /\ \E variant \in PropertyVariants(inferred_property) :
            Contains(RuleTextOf(rule), variant)

\* line 93
LooseMatch(rule) ==
    /\ Contains(RuleTextOf(rule), "hasRiskLevel")
    /\ Contains(RuleTextOf(rule), "HighRisk")

\* lines 73-99
TriggeredRules(rls, inferred_property) ==
    LET relevant_rules ==
            SelectSeq(rls, LAMBDA rule : StrictMatch(rule, inferred_property))
        chosen == IF relevant_rules # <<>> THEN relevant_rules
                  ELSE SelectSeq(rls, LAMBDA rule : LooseMatch(rule))
    IN  [i \in 1..Len(chosen) |-> TriggeredRule(chosen[i])]

\* str(o).split('#')[-1] if isinstance(o, URIRef) else str(o)
Display(o) == IF IsURIRef(o) THEN LocalName(o) ELSE o.name

\* line 103
IsInferredPropertyNever(p) == FALSE
IsInferredProperty(p) == p = FLOOD.hasRiskLevel

\* lines 102-110
ContributingFacts(g, zone_uri) ==
    LET facts == SelectSeq(Ordered({t \in g : t[1] = zone_uri}),
                           LAMBDA t : ~IsInferredProperty(t[2]))
    IN  [i \in 1..Len(facts) |->
            [predicate |-> LocalName(facts[i][2]),
             object |-> Display(facts[i][3])]]

\* lines 170-187: the first value the store yields
GetFactValue(g, subject, predicate) ==
    LET found == Ordered({t \in g : t[1] = subject /\ t[2] = predicate})
    IN  IF found = <<>> THEN None ELSE Some(Display(found[1][3]))

\* lines 120-122: a value that is present, not empty, and that float() takes
Numeric(data) ==
    IF IsNone(data) \/ Val(data) = "" THEN None ELSE ParseFloat(Val(data))

PathEntry(factor, data, threshold, contribution) ==
    [factor |-> factor, value |-> Val(data), threshold |-> threshold,
     contribution |-> contribution]

\* lines 120-130
RainfallEntry(data) ==
    IF ~IsNone(Numeric(data))
       /\ GreaterThan(Val(Numeric(data)), RAINFALL_THRESHOLD)
    THEN <<PathEntry("Précipitations élevées", data, "100", "Forte")>>
    ELSE <<>>

\* lines 132-142
DrainageCrossesInclusive(x) == x.m <= DRAINAGE_THRESHOLD * Pow10(x.e)
DrainageCrosses(x) == LessThan(x, DRAINAGE_THRESHOLD)

DrainageEntry(data) ==
    IF ~IsNone(Numeric(data)) /\ DrainageCrosses(Val(Numeric(data)))
    THEN <<PathEntry("Faible capacité de drainage", data, "30", "Forte")>>
    ELSE <<>>

\* lines 144-154
ElevationEntry(data) ==
    IF ~IsNone(Numeric(data))
       /\ LessThan(Val(Numeric(data)), ELEVATION_THRESHOLD)
    THEN <<PathEntry("Faible élévation", data, "10", "Moyenne")>>
    ELSE <<>>

\* lines 156-166
ProximityEntry(data) ==
    IF ~IsNone(Numeric(data))
       /\ LessThan(Val(Numeric(data)), PROXIMITY_THRESHOLD)
    THEN <<PathEntry("Proximité d'un cours d'eau", data, "500", "Forte")>>
    ELSE <<>>

\* lines 114-166
PathOfInference(g, zone_uri, inferred_property) ==
    IF inferred_property = "HighRisk"
    THEN RainfallEntry(GetFactValue(g, zone_uri, FLOOD.hasRainfall))
         \o DrainageEntry(GetFactValue(g, zone_uri, FLOOD.hasDrainageCapacity))
         \o ElevationEntry(GetFactValue(g, zone_uri, FLOOD.hasElevation))
         \o ProximityEntry(GetFactValue(g, zone_uri, FLOOD.hasProximityToWater))
    ELSE <<>>

ExplanationKeys ==
    {"entity", "inferred_property", "triggered_rules", "contributing_facts",
     "path_of_inference"}

ExplainError(op, zone_name, inferred_property, message) ==
    [op |-> op, kind |-> "error", keys |-> {"error"},
     args |-> <<zone_name, inferred_property>>, error |-> message]

\* line 44
UnknownZoneMessage(zone_name) ==
    <<"La zone n'existe pas dans l'ontologie", zone_name>>

\* line 36: an rdflib Graph without triples and an empty list are falsy
NotLoaded(g, rls) ==
    IsNone(g) \/ Val(g) = {} \/ IsNone(rls) \/ Val(rls) = <<>>

\* lines 22-168, for the values of explorer.graph and explorer.rules
ExplainInference(g, rls, zone_name, inferred_property) ==
    LET zone_uri == FLOOD_NS(zone_name)
    IN  IF NotLoaded(g, rls)
        THEN ExplainError("explain_inference", zone_name, inferred_property,
                          <<"Ontologie ou règles non chargées">>)
        ELSE IF <<zone_uri, RDF.type, FLOOD.Zone>> \notin Val(g)
        THEN ExplainError("explain_inference", zone_name, inferred_property,
                          UnknownZoneMessage(zone_name))
        ELSE [op |-> "explain_inference", kind |-> "dict",
              keys |-> ExplanationKeys,
              args |-> <<zone_name, inferred_property>>,
              value |->
                [entity |-> zone_name,
                 inferred_property |-> inferred_property,
                 triggered_rules |-> TriggeredRules(Val(rls), inferred_property),
                 contributing_facts |-> ContributingFacts(Val(g), zone_uri),
                 path_of_inference |->
                    PathOfInference(Val(g), zone_uri, inferred_property)]]

(***************************************************************************)
(* OntologyExplorer.get_inference_explanation                              *)
(* (src/ontology_explorer.py:386-408), with _apply_rules (lines 710-732).  *)
(***************************************************************************)
\* the arguments of the requests (src/app.py:1042-1043)
ZoneNames == {IndividualNames[1], IndividualNames[2], "nowhere"}
PropertyNames == {"HighRisk", "MediumRisk", "Flooded"}

\* line 401
CannotLoadMessage == <<"Impossible de charger l'ontologie ou les règles">>

\* lines 717-732: the graph after _apply_rules; expand works on self.graph
\* in place, and an exception it raises is logged and dropped
ApplyRules(g, expanded) == IF expanded THEN Some(Closure(Val(g))) ELSE g

GetInferenceExplanation ==
    /\ \E zone_name \in ZoneNames, inferred_property \in PropertyNames :
       \E o \in LoadOutcomes(FALSE) :
        /\ last_loaded' = o.last_loaded
        /\ load_status' = o.status
        /\ IF ~o.ok
           THEN /\ graph' = o.graph
                /\ rules' = rules
                /\ ret' = ExplainError("get_inference_explanation", zone_name,
                                       inferred_property, CannotLoadMessage)
           ELSE \E r \in LoadRulesOutcomes :
                /\ rules' = r.rules
                /\ IF r.returned = <<>>
                   THEN /\ graph' = o.graph
                        /\ ret' = ExplainError("get_inference_explanation",
                                               zone_name, inferred_property,
                                               CannotLoadMessage)
                   ELSE /\ \E expanded \in BOOLEAN :
                                graph' = ApplyRules(o.graph, expanded)
                        /\ ret' = ExplainInference(graph', rules', zone_name,
                                                   inferred_property)
    /\ nodes' = <<>>
    /\ links' = {}
    /\ UNCHANGED <<predictVars, loading, store_order, cacheVars>>

\* src/app.py:1033-1037: load_swrl_rules()
GetSwrlRules ==
    /\ \E r \in LoadRulesOutcomes :
        /\ rules' = r.rules
        /\ ret' = [op |-> "load_swrl_rules", kind |-> "list", keys |-> {},
                   value |-> r.returned]
    /\ nodes' = <<>>
    /\ links' = {}
    /\ UNCHANGED <<predictVars, cacheVars, graph, last_loaded, load_status, loading,
                   store_order>>

ExplainNext ==
    \/ GetSwrlRules
    \/ GetInferenceExplanation

\* one OntologyExplorer, the rule listings and the explanations asked of it
SpecExplain == Init /\ [][ExplainNext]_vars

(***************************************************************************)
(* Properties of the rule cascade.                                         *)
(***************************************************************************)
Rank(level) ==
    IF level = "Faible" THEN 0 ELSE IF level = "Modéré" THEN 1 ELSE 2

RuleSteps == {"rule1", "rule2", "rule3", "rule4", "rule5"}
InReasons(r, reasons) == \E i \in 1..Len(reasons) : reasons[i] = r

\* the readings the run was given, as the sources delivered them
GivenPrecip == ExtractPrecipitation(meteo_data)
GivenDischarge == ExtractDischarge(hydro_data)
PrecipAbove(t) == ~IsNone(meteo_data.value) /\ Val(meteo_data.value) > t
DischargeAbove(t) == ~IsNone(hydro_data.value) /\ Val(hydro_data.value) > t
Classified == pc = "done" /\ result.kind = "prediction"

\* C1: within one run of predict_flood the risk level never decreases over
\* the five rule steps (Faible < Modéré < Élevé), and once it is Élevé no
\* later step changes it.
C1_RiskMonotone ==
    [][(pc \in RuleSteps \cup {"default", "return"}) =>
         /\ Rank(risk_level') >= Rank(risk_level)
         /\ (risk_level = "Élevé" => risk_level' = "Élevé")]_vars

\* a run in which rule 1 raised the level to Élevé and rules 2 and 3 then
\* fired without lowering it
C1_Witness ==
    /\ pc = "rule4"
    /\ Len(risk_reasons) = 3
    /\ risk_level = "Élevé"

\* C2: precipitation > 30 and discharge > 50 give level Élevé, status Alerte
\* and the reasons of rule 1 (with water level = discharge / 20), rule 3 and
\* rule 5.
C2_HighAndAlert ==
    (Classified /\ PrecipAbove(30 * Scale) /\ DischargeAbove(50 * Scale)) =>
        /\ result.risk_level = "Élevé"
        /\ result.alert_status = "Alerte"
        /\ \E w \in 0..(WLUnit * Val(hydro_data.value)) :
              /\ 20 * w <= WLUnit * Val(hydro_data.value)
              /\ WLUnit * Val(hydro_data.value) < 20 * (w + 1)
              /\ InReasons(Reason1(Val(meteo_data.value), w), result.reasons)
        /\ InReasons(Reason3(Val(hydro_data.value)), result.reasons)
        /\ InReasons(Reason5(Val(meteo_data.value)), result.reasons)

\* the end-to-end scenario: precipitation = 40, discharge = 55
C2_Witness ==
    /\ Classified
    /\ meteo_data.value = Some(40 * Scale)
    /\ hydro_data.value = Some(55 * Scale)
    /\ result.risk_level = "Élevé"

\* C3: the moderate-precipitation rule fires exactly when
\* 15.0 < precipitation <= 30.0: its reason is among the reasons exactly then,
\* the level is then Modéré, the high-precipitation reason is absent, and a
\* precipitation of exactly 15.0 without discharge evidence leaves Faible.
C3_ModerateBoundary ==
    Classified =>
        /\ (\E p \in PrecipValues : InReasons(Reason4(p), result.reasons))
             <=> (PrecipAbove(15 * Scale) /\ ~PrecipAbove(30 * Scale))
        /\ (PrecipAbove(15 * Scale) /\ ~PrecipAbove(30 * Scale)) =>
             /\ InReasons(Reason4(Val(meteo_data.value)), result.reasons)
             /\ ~InReasons(Reason5(Val(meteo_data.value)), result.reasons)
             /\ result.risk_level = "Modéré"
        /\ (meteo_data.value = Some(15 * Scale) /\ IsNone(GivenDischarge)) =>
             result.risk_level = "Faible"

\* precipitation one unit above 15.0, no discharge: Faible raised to Modéré
C3_Witness ==
    /\ Classified
    /\ meteo_data.value = Some(15 * Scale + 1)
    /\ IsNone(GivenDischarge)
    /\ result.risk_level = "Modéré"
    /\ result.reasons = <<Reason4(15 * Scale + 1)>>

\* C4: the default reason is emitted if and only if none of the five rules
\* fired; the reasons are then exactly that one entry, the level is Faible and
\* the status Normal.
NoRuleFired ==
    /\ ~Rule1Fires(GivenPrecip, ExtractWaterLevel(hydro_data))
    /\ ~Rule2Fires(GivenDischarge)
    /\ ~Rule3Fires(GivenDischarge)
    /\ ~Rule4Fires(GivenPrecip)
    /\ ~Rule5Fires(GivenPrecip)

C4_DefaultReason ==
    Classified =>
        /\ InReasons(DefaultReason, result.reasons) <=> NoRuleFired
        /\ NoRuleFired =>
             /\ result.reasons = <<DefaultReason>>
             /\ result.risk_level = "Faible"
             /\ result.alert_status = "Normal"

\* the no-evidence case: precipitation absent and discharge absent
C4_Witness ==
    /\ Classified
    /\ IsNone(GivenPrecip) /\ IsNone(GivenDischarge)
    /\ result.reasons = <<DefaultReason>>
    /\ result.risk_level = "Faible"
    /\ result.alert_status = "Normal"

\* C5: the alert status is Normal or Alerte from rule 3 on, becomes Alerte
\* only in the rule 3 step, is not changed by any later step of the run, and
\* the returned status is Alerte if and only if discharge is present and
\* > 50.0.
C5_AlertStatus ==
    /\ [](Classified =>
            (result.alert_status = "Alerte" <=> DischargeAbove(50 * Scale)))
    /\ [][/\ (alert_status' = "Alerte" /\ alert_status # "Alerte") => pc = "rule3"
          /\ (alert_status = "Alerte" /\ pc # "done") => alert_status' = "Alerte"
          /\ (pc = "rule3") => alert_status' \in {"Normal", "Alerte"}]_vars

\* discharge > 50 with no precipitation: Alerte with level Modéré
C5_Witness ==
    /\ Classified
    /\ IsNone(GivenPrecip)
    /\ DischargeAbove(50 * Scale)
    /\ result.alert_status = "Alerte"
    /\ result.risk_level = "Modéré"

\* C6: missing inputs are not an error.  Once both sources answered without
\* an error and the ontology graph was built, every combination of present
\* and absent readings ends in a classification; a rule that reads an absent
\* input adds no reason and changes no level.
C6_MissingInputs ==
    /\ (pc \in RuleSteps \cup {"default", "return"}) => result = NoResult
    /\ (pc = "done" /\ meteo_data.kind # "error" /\ hydro_data.kind # "error") =>
          (result.kind = "prediction" \/ result = ErrorResult("exception"))
    /\ (Classified /\ IsNone(GivenPrecip)) =>
          /\ \A i \in 1..Len(result.reasons) :
                result.reasons[i] \in
                    {DefaultReason} \cup {Reason2(d) : d \in DischargeValues}
                                    \cup {Reason3(d) : d \in DischargeValues}
          /\ result.risk_level =
                IF DischargeAbove(10 * Scale) THEN "Modéré" ELSE "Faible"
    /\ (Classified /\ IsNone(GivenDischarge)) =>
          /\ \A i \in 1..Len(result.reasons) :
                result.reasons[i] \in
                    {DefaultReason} \cup {Reason4(p) : p \in PrecipValues}
                                    \cup {Reason5(p) : p \in PrecipValues}
          /\ result.alert_status = "Normal"
          /\ result.risk_level =
                IF PrecipAbove(30 * Scale) THEN "Élevé"
                ELSE IF PrecipAbove(15 * Scale) THEN "Modéré" ELSE "Faible"

\* an empty meteo list and a present discharge: classified on discharge alone
C6_Witness ==
    /\ Classified
    /\ meteo_data.shape = "empty"
    /\ DischargeAbove(10 * Scale)
    /\ result.risk_level = "Modéré"

(***************************************************************************)
(* Properties of the visualization and of loading.                         *)
(***************************************************************************)
Visualized == ret.op = "get_ontology_visualization_data"
ReadOps == {"get_ontology_visualization_data", "get_ontology_statistics"}
LinkTypes ==
    {"instanceOf", "subClassOf", "hasDomain", "hasRange", "objectPropertyAssertion"}

\* the individuals the loop of lines 538-564 accepts when the cap leaves room
EligibleIndividuals(g) ==
    {i \in Subjects(g, RDF.type, OWL.NamedIndividual) :
        IsURIRef(i) /\ StartsWithFloodNS(i) /\ IndividualTypes(g, i) # {}}

LeftOut(g) ==
    {i \in EligibleIndividuals(g) : <<"indiv", LocalName(i)>> \notin NodeIds(nodes)}

\* C7: after a successful load, get_ontology_visualization_data returns the
\* graph it built: the result holds the node list and the link list.
C7_ReturnsNodesAndLinks ==
    (Visualized /\ load_status = "ok") =>
        /\ ret.kind = "dict"
        /\ {"nodes", "links"} \subseteq ret.keys

\* C8: every link has a source and a target that are ids of nodes which were
\* in the node list when the link was emitted.
C8_NoDanglingLink ==
    Visualized =>
        \A l \in links :
            /\ l.at <= Len(nodes)
            /\ \E i \in 1..l.at : nodes[i].id = l.source
            /\ \E j \in 1..l.at : nodes[j].id = l.target

\* a graph giving links of all five kinds, in which an asserted relation
\* between two named individuals is left out because one end has no node
C8_Witness ==
    /\ Visualized /\ ret.kind = "dict"
    /\ \A ty \in LinkTypes : \E l \in links : l.type = ty
    /\ \E t \in Val(graph) :
          /\ t[2] = FLOOD.isDownstreamOf
          /\ <<FLOOD.isDownstreamOf, RDF.type, OWL.ObjectProperty>> \in Val(graph)
          /\ <<"indiv", LocalName(t[1])>> \notin NodeIds(nodes)
          /\ <<"indiv", LocalName(t[3])>> \in NodeIds(nodes)

\* C9: when eligible individuals are left out of the node list because of
\* the cap, the result carries a flag, beside the visualization, that says so.
C9_TruncationReported ==
    (Visualized /\ ret.kind = "dict"
        /\ Cardinality(EligibleIndividuals(Val(graph))) > max_individuals
        /\ LeftOut(Val(graph)) # {}) =>
        ret.keys \ (DescriptionKeys \cup {"nodes", "links"}) # {}

\* C10: whenever the most recent load attempt failed, a read operation
\* returns the structured error result.
C10_FailedLoadGivesError ==
    (load_status = "failed" /\ ret.op \in ReadOps) => ret.kind = "error"

(***************************************************************************)
(* Properties of a reload served while other requests read the graph.      *)
(***************************************************************************)
\* the graphs a load that ran to completion leaves
CompleteGraphs == {Some(ClosedFiles[id]) : id \in FileIds}

\* C11: a read operation interleaved with a forced reload observes a
\* complete closed graph (the previous one or the new one), never an empty,
\* partly parsed or not yet closed graph.
C11_AtomicSwap ==
    [][(GetOntologyStatistics /\ loading.at # "idle" /\ ret'.kind = "dict")
        => graph' \in CompleteGraphs]_vars

(***************************************************************************)
(* Properties of the explanations.                                         *)
(***************************************************************************)
ExplainOps == {"explain_inference", "get_inference_explanation"}
\* a step of get_inference_explanation
Explained == ret'.op \in ExplainOps
\* the last call returned the dict of explain_inference
IsExplanation(r) == r.op = "explain_inference" /\ r.kind = "dict"
\* the facts of the store about a zone
FactsAbout(zone_name) == {t \in Val(graph) : t[1] = FLOOD_NS(zone_name)}

\* C12: producing an explanation leaves the facts of a loaded graph and a
\* loaded rule catalog exactly as they were before the call.
C12_ExplanationReadOnly ==
    [][Explained =>
        /\ (~IsNone(graph) => graph' = graph)
        /\ (~IsNone(rules) => rules' = rules)]_vars

\* the catalog rules that set the risk level to a variant of the property,
\* with their id, text and description, in the order of the catalog
SetsRiskLevel(rule, inferred_property) ==
    /\ Contains(rule.rule, "hasRiskLevel")
    /\ \E variant \in PropertyVariants(inferred_property) :
            Contains(rule.rule, variant)

RulesSettingRiskLevel(inferred_property) ==
    LET matching == SelectSeq(Val(rules),
                        LAMBDA rule : SetsRiskLevel(rule, inferred_property))
    IN  [i \in 1..Len(matching) |->
            [rule_id |-> Some(matching[i].id),
             rule_text |-> matching[i].rule,
             description |-> Some(matching[i].description)]]

\* C14: for a known entity, triggered_rules lists exactly the catalog rules
\* whose stored text contains 'hasRiskLevel' and a variant of the property,
\* in catalog order, each with its id, text and description.
C14_TriggeredRules ==
    IsExplanation(ret) =>
        ret.value.triggered_rules = RulesSettingRiskLevel(ret.args[2])

C16_PassRecorded ==
    IsExplanation(ret) =>
        \/ ret.keys \ ExplanationKeys # {}
        \/ /\ ret.value.triggered_rules # <<>>
           /\ \A i \in 1..Len(ret.value.triggered_rules) :
                DOMAIN ret.value.triggered_rules[i]
                    # {"rule_id", "rule_text", "description"}

\* how many entries of a list equal e
Occurrences(list, e) == Cardinality({i \in 1..Len(list) : list[i] = e})
Rendered(t) == [predicate |-> t[2].name, object |-> t[3].name]

\* C17: contributing_facts has one entry (predicate name, object display
\* value) for every fact about the entity whose predicate is not
\* hasRiskLevel, and no other entry.
C17_ContributingFacts ==
    IsExplanation(ret) =>
        LET listed == ret.value.contributing_facts
            evidence == {t \in FactsAbout(ret.args[1]) : t[2] # FLOOD.hasRiskLevel}
        IN  /\ Len(listed) = Cardinality(evidence)
            /\ \A t \in evidence :
                Occurrences(listed, Rendered(t))
                    = Cardinality({u \in evidence : Rendered(u) = Rendered(t)})

\* an entity with a hasRiskLevel fact and with two facts that render alike
C17_Witness ==
    /\ IsExplanation(ret)
    /\ \E t \in FactsAbout(ret.args[1]) : t[2] = FLOOD.hasRiskLevel
    /\ \E i, j \in 1..Len(ret.value.contributing_facts) :
        i # j /\ ret.value.contributing_facts[i] = ret.value.contributing_facts[j]

\* the risk factors in the order of the path, with their label, the side on
\* which a value crosses, and the limit
Factors ==
    << [predicate |-> FLOOD.hasRainfall, label |-> "Précipitations élevées",
        above |-> TRUE, limit |-> 100],
       [predicate |-> FLOOD.hasDrainageCapacity, label |-> "Faible capacité de drainage",
        above |-> FALSE, limit |-> 30],
       [predicate |-> FLOOD.hasElevation, label |-> "Faible élévation",
        above |-> FALSE, limit |-> 10],
       [predicate |-> FLOOD.hasProximityToWater, label |-> "Proximité d'un cours d'eau",
        above |-> FALSE, limit |-> 500] >>

\* the numeric texts of the files, in hundredths; a text that is not here
\* is not a number
Hundredths ==
    ("150" :> 15000) @@ ("20" :> 2000) @@ ("5.5" :> 550) @@ ("499.95" :> 49995)
    @@ ("100" :> 10000) @@ ("30" :> 3000) @@ ("10.0" :> 1000) @@ ("500" :> 50000)
    @@ ("100.1" :> 10010) @@ ("29.9" :> 2990) @@ ("9.99" :> 999)
    @@ ("500.1" :> 50010) @@ ("5" :> 500) @@ ("50" :> 5000) @@ ("10" :> 1000)
    @@ ("12" :> 1200) @@ ("400" :> 40000) @@ ("450" :> 45000) @@ ("-5" :> -500)
    @@ ("+29.5" :> 2950) @@ ("-2.5" :> -250) @@ ("0" :> 0)

Crossing(k, text) ==
    /\ text \in DOMAIN Hundredths
    /\ IF Factors[k].above THEN Hundredths[text] > 100 * Factors[k].limit
       ELSE Hundredths[text] < 100 * Factors[k].limit

FactorOf(entry) == CHOOSE k \in 1..Len(Factors) : Factors[k].label = entry.factor
ValuesOf(zone_name, k) ==
    {t[3].name : t \in {u \in FactsAbout(zone_name) : u[2] = Factors[k].predicate}}

\* C18: path_of_inference is empty unless the property is HighRisk; for
\* HighRisk it has, in the order rainfall, drainage, elevation, proximity,
\* at most one entry per factor, each for a numeric value of the factor
\* strictly across its limit; a factor with one value has its entry exactly
\* when that value is numeric and across; a factor without value has none.
C18_PathOfInference ==
    IsExplanation(ret) =>
        LET path == ret.value.path_of_inference
            zone_name == ret.args[1]
        IN  IF ret.args[2] # "HighRisk" THEN path = <<>>
            ELSE /\ Len(path) <= Len(Factors)
                 /\ \A i \in 1..Len(path) :
                        \E k \in 1..Len(Factors) : Factors[k].label = path[i].factor
                 /\ \A i, j \in 1..Len(path) :
                        i < j => FactorOf(path[i]) < FactorOf(path[j])
                 /\ \A i \in 1..Len(path) :
                        /\ path[i].value \in ValuesOf(zone_name, FactorOf(path[i]))
                        /\ Crossing(FactorOf(path[i]), path[i].value)
                 /\ \A k \in 1..Len(Factors) :
                        LET listed == \E i \in 1..Len(path) : FactorOf(path[i]) = k
                            values == ValuesOf(zone_name, k)
                        IN  /\ values = {} => ~listed
                            /\ Cardinality(values) = 1 =>
                                (listed <=> \A v \in values : Crossing(k, v))

\* all four factors across their limits
C18_Witness ==
    /\ IsExplanation(ret)
    /\ ret.args[2] = "HighRisk"
    /\ Len(ret.value.path_of_inference) = Len(Factors)

HasSubClassCycle(g) ==
    \E t \in g :
        /\ t[2] = RDFS.subClassOf
        /\ t[1] # t[3]
        /\ <<t[3], RDFS.subClassOf, t[1]>> \in g

\* C20: a load that succeeds never leaves a class hierarchy with a cycle:
\* a file whose subClassOf edges have a cycle is reported as a load failure
\* and is not closed.
C20_CyclicSchemaRejected ==
    (load_status = "ok" /\ ~IsNone(graph)) => ~HasSubClassCycle(Val(graph))

(***************************************************************************)
(* Properties of the precipitation rules.                                  *)
(***************************************************************************)
\* C26: the moderate-precipitation rule (rule 4) and the high-precipitation
\* rule (rule 5) are mutually exclusive: at no point of a run, and in no
\* returned result, do the reasons hold both the moderate-precipitation
\* reason and the very-high-precipitation reason.
C26_Rule4Rule5Exclusive ==
    \A p, q \in PrecipValues :
        /\ ~(InReasons(Reason4(p), risk_reasons)
                /\ InReasons(Reason5(q), risk_reasons))
        /\ Classified =>
              ~(InReasons(Reason4(p), result.reasons)
                  /\ InReasons(Reason5(q), result.reasons))

\* precipitation of exactly 30.0, where rule 4's range ends: rule 4 alone
C26_Witness ==
    /\ Classified
    /\ meteo_data.value = Some(PRECIP_HIGH)
    /\ InReasons(Reason4(PRECIP_HIGH), result.reasons)
    /\ ~InReasons(Reason5(PRECIP_HIGH), result.reasons)

\* C29: the returned level is Élevé if and only if precipitation is present
\* and > 30.0, whatever the discharge: rule 1 raises the level to Élevé only
\* in runs where rule 5 fires too, and without such a precipitation the
\* level stays at most Modéré for every discharge.
C29_HighIffPrecipitation ==
    /\ [](Classified =>
            /\ result.risk_level = "Élevé" <=> PrecipAbove(30 * Scale)
            /\ ~PrecipAbove(30 * Scale) =>
                  result.risk_level =
                      IF DischargeAbove(10 * Scale)
                            \/ (PrecipAbove(15 * Scale)) THEN "Modéré"
                      ELSE "Faible")
    /\ [][(pc = "rule1" /\ risk_level' = "Élevé") =>
              Rule5Fires(precipitation)]_vars

\* the largest discharge with a precipitation of exactly 30.0: Modéré
C29_Witness ==
    /\ Classified
    /\ meteo_data.value = Some(30 * Scale)
    /\ hydro_data.value = Some(60 * Scale)
    /\ result.alert_status = "Alerte"
    /\ result.risk_level = "Modéré"
(***************************************************************************)
(* Properties of the fallback pass of explain_inference.                   *)
(***************************************************************************)
MentionsHighRisk(rule) ==
    Contains(rule.rule, "hasRiskLevel") /\ Contains(rule.rule, "HighRisk")

RulesMentioningHighRisk ==
    LET matching == SelectSeq(Val(rules), MentionsHighRisk)
    IN  [i \in 1..Len(matching) |->
            [rule_id |-> Some(matching[i].id),
             rule_text |-> matching[i].rule,
             description |-> Some(matching[i].description)]]

\* C27: the fallback pass runs if and only if the strict variant search
\* matched no catalog rule: triggered_rules is then exactly the catalog
\* rules whose text contains 'hasRiskLevel' and 'HighRisk', in catalog order,
\* whatever the target property; when the strict search matched a rule,
\* triggered_rules is the strict matches and nothing more.
C27_FallbackPass ==
    IsExplanation(ret) =>
        ret.value.triggered_rules =
            IF RulesSettingRiskLevel(ret.args[2]) # <<>>
            THEN RulesSettingRiskLevel(ret.args[2])
            ELSE RulesMentioningHighRisk
(***************************************************************************)
(* Properties of the node list.                                            *)
(***************************************************************************)
IndividualNodes == {i \in 1..Len(nodes) : nodes[i].type = "individual"}

\* C30: whatever the number of individuals in the graph, the node list of
\* get_ontology_visualization_data holds at most max_individuals (30) nodes
\* of kind 'individual', and no node id occurs twice in it.
C30_CappedNoDuplicateId ==
    Visualized =>
        /\ Cardinality(IndividualNodes) <= max_individuals
        /\ \A i, j \in 1..Len(nodes) : nodes[i].id = nodes[j].id => i = j

\* more eligible individuals than the cap, two of them with one local name,
\* and two classes with one local name: the cap is reached, one node each
C30_Witness ==
    /\ Visualized /\ ret.kind = "dict"
    /\ Cardinality(EligibleIndividuals(Val(graph))) > max_individuals + 1
    /\ \E x, y \in EligibleIndividuals(Val(graph)) :
            x # y /\ LocalName(x) = LocalName(y)
    /\ \E c, d \in Subjects(Val(graph), RDF.type, OWL.Class) :
            c # d /\ LocalName(c) = LocalName(d)
    /\ Cardinality(IndividualNodes) = max_individuals
(***************************************************************************)
(* Properties of the cache.                                                *)
(***************************************************************************)
\* C21: flood predictions are published by replacement: at every point at
\* which the entry passes the validity check, the cached prediction and the
\* cached timestamp were written by one and the same evaluation.
C21_PublishedByReplacement ==
    CacheValid(cache, "flood_prediction", clock) =>
        writer.flood_prediction = writer.flood_prediction_timestamp

\* the predictions some thread holds or the cache holds
PredictionsHeld ==
    LET held == {cache.flood_prediction}
                \cup {threads[t].value : t \in Threads}
                \cup {threads[t].ret : t \in Threads}
    IN  {Val(x) : x \in {y \in held : ~IsNone(y) /\ Val(y).kind = "prediction"}}

\* C22: the output for a snapshot id is immutable: any two results of
\* predict_flood that carry the same analysis_id are identical.
C22_SnapshotImmutable ==
    \A r1, r2 \in PredictionsHeld :
        r1.analysis_id = r2.analysis_id => r1 = r2

\* C23: a fetch function returns data of the arguments it was called with:
\* the station of get_current_hydro, the date of get_current_meteo, the
\* period of get_meteo_history_forecast, whatever was called before.
C23_FetchHonoursArguments ==
    \A t \in Threads :
        (/\ threads[t].pc = "idle"
         /\ threads[t].op \in {"meteo", "hydro", "meteo_history"}
         /\ ~IsNone(threads[t].ret)
         /\ ~IsError(Val(threads[t].ret))) =>
            Val(threads[t].ret).about = threads[t].args

\* C24: on a miss get_current_meteo queries WIGOS first, queries Open-Meteo
\* only after WIGOS failed (non-200 status, no features, request exception),
\* returns Open-Meteo's data when Open-Meteo succeeds, and returns an error
\* only when both sources failed.
C24_WigosThenOpenMeteo ==
    \A t \in Threads :
        (threads[t].key = "meteo" /\ ~IsNone(threads[t].sources)) =>
            LET q == Val(threads[t].sources)
                v == Val(threads[t].value)
            IN  /\ q.wigos # "not_queried"
                /\ q.openmeteo # "not_queried" =>
                      q.wigos \in {"non_200", "no_features", "request_exception"}
                /\ q.openmeteo = "ok" =>
                      ~IsError(v) /\ v.source = "openmeteo"
                /\ IsError(v) => (q.wigos # "ok" /\ q.openmeteo = "error")

\* C25: every iteration of refresh_cache re-fetches the current meteo data,
\* the current hydro data and the flood prediction (its call of each
\* function misses the cache), and no entry the thread populated is ever as
\* old as cache_lifetime.
C25_RefreshBeforeExpiry ==
    /\ [](\A k \in {"meteo", "hydro", "flood_prediction"} :
            ~IsNone(cache[TimestampKey(k)]) =>
                clock - Val(cache[TimestampKey(k)]) < cache_lifetime)
    /\ [][(/\ threads["refresh_cache"].pc = "check"
           /\ threads["refresh_cache"].key = threads["refresh_cache"].op) =>
              threads'["refresh_cache"].pc # "hit"]_vars

\* an optional value that is an error result: a dict with the key "error"
HoldsError(x) == ~IsNone(x) /\ Val(x).kind = "error"

\* C28: the cache never holds an error result: a call that returns an error
\* has assigned neither its entry nor its timestamp, and a prediction is
\* stored only by an evaluation whose meteo and hydro inputs are no errors.
C28_NoErrorCached ==
    /\ [](/\ \A k \in DataKeys : ~HoldsError(cache[k])
          /\ \A t \in Threads :
                (threads[t].pc = "idle" /\ HoldsError(threads[t].ret)) =>
                    threads[t].wrote \cap
                        {threads[t].op, TimestampKey(threads[t].op)} = {})
    /\ [][cache'.flood_prediction # cache.flood_prediction =>
            \E t \in Threads :
                /\ threads[t].pc = "evaluate"
                /\ ~HoldsError(threads[t].meteo_data)
                /\ ~HoldsError(threads[t].hydro_data)
                /\ cache'.flood_prediction = threads'[t].value]_vars

\* predict_flood stored the meteo data it fetched, failed on the hydro
\* source, returned an error, and left a prediction of an earlier call and
\* its timestamp as they were
C28_Witness ==
    LET th == threads["request"]
    IN  /\ th.pc = "idle" /\ th.op = "flood_prediction"
        /\ HoldsError(th.ret)
        /\ th.wrote = {"meteo", "meteo_timestamp"}
        /\ ~IsNone(cache.flood_prediction)
        /\ ~CacheValid(cache, "flood_prediction", clock)
====
